---- MODULE Spec2Model ----
(***************************************************************************)
(* Model of splunkbase-download.py: the sync loop of __main__, the archive *)
(* fetcher download_stream and the manifest store                          *)
(* (update_Your_apps_file_atomic, atomic_write_json, create_backup,        *)
(* rotate_backups).                                                        *)
(*                                                                         *)
(* The specifications share the write path of the manifest store:          *)
(*   Spec       one sync pass of __main__ over a loaded Your_apps.json     *)
(*   SpecFilter a sync pass started with --only and --exclude              *)
(*   SpecStore  the two write functions called directly, one call after    *)
(*              the other, as tests/test_stream_atomic.py calls them       *)
(*   SpecRotate a series of successful manifest writes with backups kept   *)
(***************************************************************************)
EXTENDS Integers, Sequences, FiniteSets, TLC

\* ------------------------------------------------------------------ bounds
MaxRecords == 2      \* records in Your_apps.json
NumChunks == 2       \* chunks of an archive's payload
MaxClock == 1        \* seconds the wall clock can advance during a run
MaxCalls == 2        \* direct calls of the write functions in SpecStore
MaxWrites == 4       \* successive manifest writes in SpecRotate

\* ------------------------------------------------------- values of the data
None == "None"       \* Python's None where a string is expected
NoUid == 0           \* app.get("uid") is None
Absent == -1         \* no file at an archive path
KeepUnset == -1      \* backup_keep is None: --backup-keep not given
BackupKeepDefault == 5
Uids == {1, 2}

\* What Splunkbase answers as first release name for a uid.
RemoteLatest(uid) == IF uid = 1 THEN "1.1" ELSE "2.1"
VersionsOf(uid) == {"1.0", RemoteLatest(uid)}

RecordSet ==
    {[uid |-> u, version |-> v, updated_time |-> "t0"] : u \in Uids, v \in {"1.0"}}
    \cup {[uid |-> u, version |-> RemoteLatest(u), updated_time |-> "t0"] : u \in Uids}
    \cup {[uid |-> NoUid, version |-> "1.0", updated_time |-> "t0"]}

Manifests == UNION {[1..k -> RecordSet] : k \in 1..MaxRecords}

\* A --only / --exclude value as str.split(',') cuts it; <<>> is the option
\* not given (or given as the empty string, which is falsy as well).
NotGiven == <<>>
OnlyArgs == {NotGiven, <<"1">>, <<" ">>}
ExcludeArgs == {NotGiven, <<" 2", " ">>, <<"1", "x">>}

\* only_uids / exclude_uids: None, or the set parse_uid_list returned.
NoFilter == [given |-> FALSE, uids |-> {}]
UidFilter(S) == [given |-> TRUE, uids |-> S]

\* Paths {outdir}/{uid}_{version}.tgz the run can touch.
ArchiveKeys == UNION {{<<u, v>> : v \in VersionsOf(u)} : u \in Uids}

\* A file holding JSON: how much of the serialised data has reached it.
NoFile == [exists |-> FALSE, data |-> <<>>, written |-> "full", mtime |-> 0]
JsonFile(data, written, mtime) ==
    [exists |-> TRUE, data |-> data, written |-> written, mtime |-> mtime]

VARIABLES
    mode,             \* "sync" (__main__), "store" (direct calls) or
                      \* "rotate" (one successful write after the other)
    pc,               \* position of the process
    dry_run, fix_missing, backup_keep,      \* args
    only_arg, exclude_arg,                  \* args.only, args.exclude
    only_uids, exclude_uids,                \* the parsed uid filters
    apps0,            \* content of Your_apps.json when it was loaded
    apps_data,        \* apps_data_from_file, the in-memory list
    disk,             \* the file Your_apps.json
    tmp,              \* the mkstemp file your_apps_*.json
    backups,          \* the files Your_apps.json.bak-*
    now,              \* wall clock, seconds
    mclock,           \* file-system time of the last manifest write
    files,            \* archive directory: chunks written per path, or Absent
    net,              \* requests sent to Splunkbase
    idx,              \* position of the for loop in apps_data_from_file
    current_version, file_present, latest_version, updated_time,  \* loop locals
    ds_version,       \* app_version argument of download_stream
    ds_exit,          \* which return of download_stream was taken
    eval_results, downloaded_apps, skipped_apps,
    total_apps, to_update, up_to_date, errors, missing_files,
    call,             \* frame of the running write function
    failure,          \* exception in flight: "none", "write", "local_io",
                      \* "value"
    calls,            \* direct calls made so far (SpecStore)
    prev_disk,        \* history: Your_apps.json when the write was called
    commits,          \* history: commits the sync loop has started
    document,         \* parsed JSON handed to validate_apps_data and
                      \* format_apps_for_readability
    val_idx,          \* idx of the loop of validate_apps_data
    results, val_errors, val_warnings,   \* results, errors, warnings there
    seen_uids,        \* seen_uids there: pairs <<uid, index>>
    sort_by,          \* sort_by of format_apps_for_readability
    formatted,        \* what format_apps_for_readability(document) gave
    formatted_again,  \* what it gave when applied to that result
    fail_on_errors, format_json,            \* args
    exit_code,        \* exit status of the process, NotExited while it runs
    existing_apps, existing_uids,           \* onboarding: the manifest as read
    batch,            \* onboarding: the inputs not yet handled
    uids_to_add,      \* onboarding: uids accepted so far (added_uids)
    new_apps,         \* onboarding: the records to add
    cache,            \* the file splunkbase_catalog.json
    cat_resp,         \* the answer to the catalog request, NoResponse before
    catalog           \* catalog of fetch_splunkbase_catalog, NotFetched before

\* State of validate_apps_data, which no step of the sync loop touches.
validation == <<document, val_idx, results, val_errors, val_warnings, seen_uids>>
\* State of the calls of format_apps_for_readability.
reformat == <<sort_by, formatted, formatted_again>>
\* What __main__ adds around the loop, and the state of the onboarding modes.
\* State of fetch_splunkbase_catalog.
catalog_cache == <<cache, cat_resp, catalog>>
main == <<fail_on_errors, format_json, exit_code, catalog_cache>>
onboarding == <<existing_apps, existing_uids, batch, uids_to_add, new_apps>>
options == <<mode, dry_run, fix_missing, backup_keep, apps0, only_arg, exclude_arg,
             validation, reformat, main, onboarding>>
args == <<options, only_uids, exclude_uids>>
store == <<disk, tmp, backups, now, mclock>>
locals == <<current_version, file_present, latest_version, updated_time, ds_version, ds_exit>>
counters == <<total_apps, to_update, up_to_date, errors, missing_files>>
lists == <<eval_results, downloaded_apps, skipped_apps>>
hist == <<prev_disk, commits>>
vars == <<args, pc, apps_data, store, files, net, idx, locals, counters, lists,
          call, failure, calls, hist>>


\* ------------------------------------------------------------ manifest store
\* Index of the first record whose uid is `uid`, 0 when there is none.
FirstWithUid(apps, uid) ==
    IF \E i \in 1..Len(apps) : apps[i].uid = uid
    THEN CHOOSE i \in 1..Len(apps) :
            /\ apps[i].uid = uid
            /\ \A j \in 1..(i - 1) : apps[j].uid # uid
    ELSE 0

\* Mutant of Upsert: the version is set, updated_time is forgotten.
Upsert_KeepsTime(apps, uid, new_version, t) ==
    LET i == FirstWithUid(apps, uid) IN
    IF i # 0
    THEN [apps EXCEPT ![i] = [@ EXCEPT !.version = new_version]]
    ELSE Append(apps, [uid |-> uid, version |-> new_version, updated_time |-> t])

\* The in-memory part of update_Your_apps_file_atomic: find by uid, mutate the
\* first match, append a new entry when there is none.
Upsert(apps, uid, new_version, t) ==
    LET i == FirstWithUid(apps, uid) IN
    IF i # 0
    THEN [apps EXCEPT ![i] = [@ EXCEPT !.version = new_version, !.updated_time = t]]
    ELSE Append(apps, [uid |-> uid, version |-> new_version, updated_time |-> t])

\* shutil.copy2(file_path, backup_path): the copy takes the name built from the
\* clock (one second resolution) and keeps the manifest's mtime.
CopyBackup(bks, stamp, file) ==
    {b \in bks : b.name # stamp}
    \cup {[name |-> stamp, mtime |-> file.mtime, data |-> file.data]}

\* rotate_backups: newest first by st_mtime, everything after keep_count is
\* unlinked; files of equal mtime keep the order glob gave them.
rotate_backups(bks, keep_count) ==
    IF keep_count <= 0 THEN {bks}
    ELSE {S \in SUBSET bks :
            /\ Cardinality(S) = IF Cardinality(bks) < keep_count
                                THEN Cardinality(bks) ELSE keep_count
            /\ \A a \in S, b \in bks \ S : a.mtime >= b.mtime}

\* create_backup at clock value stamp: the sets of backup files it can leave.
create_backup(bks, file, keep, stamp) ==
    IF keep = 0 \/ ~file.exists THEN {bks}
    ELSE {bks}       \* copy2 raised: logged, None returned
         \cup rotate_backups(CopyBackup(bks, stamp, file), keep)

\* What json.dump serialises: apps_data for update_Your_apps_file_atomic, the
\* data argument for atomic_write_json.
WriteData == IF call.fn = "update" THEN apps_data ELSE call.data

NoCall == [fn |-> "none", uid |-> NoUid, version |-> None, time |-> None, data |-> <<>>]

\* Mutant of Raised: the loop catches the write's exception and goes on.
Raised_Swallowed == IF mode = "sync" THEN "upd_return" ELSE "raised"

\* Where an exception of the write path lands: the handler of __main__, or the
\* direct caller.
Raised == IF mode = "sync" THEN "aborted" ELSE "raised"

\* Mutant of EffectiveKeep: an unset backup_keep keeps a single backup.
EffectiveKeep_UnsetKeepsOne(keep) == IF keep = KeepUnset THEN 1 ELSE keep

\* Lines 125-126 / 230-231 (and 1129-1130): None stands for the default.
EffectiveKeep(keep) == IF keep = KeepUnset THEN BackupKeepDefault ELSE keep

\* Lines 125-128 / 230-233: backup before the write, unless backup_keep is 0.
UpdBackup ==
    /\ pc = "upd_backup"
    /\ \E stamp \in {now, now + 1} :
         /\ stamp <= MaxClock
         /\ now' = stamp
         /\ IF EffectiveKeep(backup_keep) # 0
            THEN backups' \in create_backup(backups, disk,
                                            EffectiveKeep(backup_keep), stamp)
            ELSE backups' = backups
    /\ pc' = "upd_mkstemp"
    /\ UNCHANGED <<args, apps_data, disk, tmp, mclock, files, net, idx, locals,
                   counters, lists, call, failure, calls, hist>>

\* tempfile.mkstemp: an empty file next to the manifest; a failure here is
\* outside the try block.
UpdMkstemp ==
    /\ pc = "upd_mkstemp"
    /\ \/ /\ tmp' = JsonFile(<<>>, "empty", mclock + 1)
          /\ mclock' = mclock + 1
          /\ pc' = "upd_dump"
          /\ UNCHANGED failure
       \/ /\ failure' = "write"
          /\ pc' = Raised
          /\ UNCHANGED <<tmp, mclock>>
    /\ UNCHANGED <<args, apps_data, disk, backups, now, files, net, idx, locals,
                   counters, lists, call, calls, hist>>

\* Mutant of WriteCleanup: re-raises and leaves the temporary file behind.
WriteCleanup_NoUnlink ==
    /\ tmp' = tmp
    /\ failure' = "write"
    /\ pc' = Raised

\* The except branch: unlink the temporary file, re-raise.
WriteCleanup ==
    /\ tmp' = NoFile
    /\ failure' = "write"
    /\ pc' = Raised

\* Mutant of UpdDump: the dump is written to Your_apps.json itself.
UpdDump_InPlace ==
    /\ pc = "upd_dump"
    /\ disk' = JsonFile(WriteData, "partial", tmp.mtime)
    /\ pc' = "upd_fsync"
    /\ UNCHANGED <<args, apps_data, tmp, backups, now, mclock, files, net, idx,
                   locals, counters, lists, call, failure, calls, hist>>

\* json.dump reaches the temporary file piece by piece.
UpdDump ==
    /\ pc = "upd_dump"
    /\ \/ /\ tmp' = JsonFile(WriteData, "partial", tmp.mtime)
          /\ pc' = "upd_fsync"
          /\ UNCHANGED failure
       \/ WriteCleanup
    /\ UNCHANGED <<args, apps_data, disk, backups, now, mclock, files, net, idx,
                   locals, counters, lists, call, calls, hist>>

\* The rest of the dump, flush and os.fsync.
UpdFsync ==
    /\ pc = "upd_fsync"
    /\ \/ /\ tmp' = JsonFile(WriteData, "full", tmp.mtime)
          /\ pc' = "upd_replace"
          /\ UNCHANGED failure
       \/ WriteCleanup
    /\ UNCHANGED <<args, apps_data, disk, backups, now, mclock, files, net, idx,
                   locals, counters, lists, call, calls, hist>>

\* Mutant of UpdReplace: the rename is left for the end of the run.
UpdReplace_Deferred ==
    /\ pc = "upd_replace"
    /\ pc' = "upd_return"
    /\ UNCHANGED <<args, apps_data, store, files, net, idx, locals, counters,
                   lists, call, failure, calls, hist>>

\* Path(tmp_path).replace(file_path): one rename.
UpdReplace ==
    /\ pc = "upd_replace"
    /\ \/ /\ disk' = tmp
          /\ tmp' = NoFile
          /\ pc' = "upd_return"
          /\ UNCHANGED failure
       \/ /\ WriteCleanup
          /\ UNCHANGED disk
    /\ UNCHANGED <<args, apps_data, backups, now, mclock, files, net, idx,
                   locals, counters, lists, call, calls, hist>>

\* The process is terminated: nothing of it runs any more, the files stay.
Kill ==
    /\ pc \notin {"done", "aborted", "killed", "idle", "raised", "exited"}
    /\ pc' = "killed"
    /\ UNCHANGED <<args, apps_data, store, files, net, idx, locals, counters,
                   lists, call, failure, calls, hist>>

\* -------------------------------------------------- direct calls (SpecStore)
StoreTimes == {"lm_utc"}

StoreCallUpdate ==
    /\ mode = "store" /\ pc = "idle" /\ calls < MaxCalls
    /\ \E uid \in Uids, t \in StoreTimes : \E v \in VersionsOf(uid) :
         /\ call' = [fn |-> "update", uid |-> uid, version |-> v, time |-> t,
                     data |-> <<>>]
         /\ apps_data' = Upsert(apps_data, uid, v, t)
    /\ prev_disk' = disk
    /\ calls' = calls + 1
    /\ pc' = "upd_backup"
    /\ UNCHANGED <<args, store, files, net, idx, locals, counters, lists,
                   failure, commits>>

StoreCallWriteJson ==
    /\ mode = "store" /\ pc = "idle" /\ calls < MaxCalls
    /\ \E data \in {apps_data, apps0} :
         call' = [fn |-> "write_json", uid |-> NoUid, version |-> None,
                  time |-> None, data |-> data]
    /\ prev_disk' = disk
    /\ calls' = calls + 1
    /\ pc' = "upd_backup"
    /\ UNCHANGED <<args, apps_data, store, files, net, idx, locals, counters,
                   lists, failure, commits>>

\* The write function returned, or its exception reached the caller.
StoreReturn ==
    /\ mode = "store" /\ pc \in {"upd_return", "raised"}
    /\ pc' = "idle"
    /\ failure' = "none"
    /\ UNCHANGED <<args, apps_data, store, files, net, idx, locals, counters,
                   lists, call, calls, hist>>

\* validate_apps_data has not been called.
ValidationIdle ==
    /\ document = [t |-> "list", items |-> <<>>]
    /\ val_idx = 0
    /\ results = <<>> /\ val_errors = 0 /\ val_warnings = 0
    /\ seen_uids = {}

\* format_apps_for_readability has not been called.
NotCalled == [raised |-> FALSE, items |-> <<>>]
ReformatIdle ==
    /\ sort_by = "name"
    /\ formatted = NotCalled
    /\ formatted_again = NotCalled

InitLocals ==
    /\ tmp = NoFile
    /\ now = 0
    /\ mclock = 0
    /\ net = <<>>
    /\ idx = 1
    /\ current_version = None /\ file_present = FALSE /\ latest_version = None
    /\ updated_time = None /\ ds_version = None /\ ds_exit = "none"
    /\ eval_results = <<>> /\ downloaded_apps = <<>> /\ skipped_apps = <<>>
    /\ total_apps = 0 /\ to_update = 0 /\ up_to_date = 0 /\ errors = 0
    /\ missing_files = 0
    /\ call = NoCall
    /\ failure = "none"
    /\ calls = 0
    /\ commits = <<>>
    /\ prev_disk = disk
    /\ only_uids = NoFilter /\ exclude_uids = NoFilter

\* fetch_splunkbase_catalog has not been called and no cache file exists.
NoCache == [exists |-> FALSE, age |-> 0, content |-> "none", data |-> <<>>]
NoResponse == [status |-> 0, body |-> "none", apps |-> <<>>]
NotFetched == [returned |-> FALSE, content |-> "none", data |-> <<>>]
CatalogIdle ==
    /\ cache = NoCache
    /\ cat_resp = NoResponse
    /\ catalog = NotFetched

NotExited == -1
\* The functions are called directly: no command line, no onboarding.
MainIdle ==
    /\ fail_on_errors = FALSE /\ format_json = FALSE
    /\ exit_code = NotExited
    /\ CatalogIdle
OnboardingIdle ==
    /\ existing_apps = <<>> /\ existing_uids = {}
    /\ batch = <<>> /\ uids_to_add = <<>> /\ new_apps = <<>>

InitCommon ==
    /\ InitLocals
    /\ ValidationIdle
    /\ ReformatIdle
    /\ MainIdle
    /\ OnboardingIdle

\* Lists the direct callers start from: one record, two apps, a duplicated uid.
StoreManifests ==
    {m \in Manifests :
        /\ m[1] = [uid |-> 1, version |-> "1.0", updated_time |-> "t0"]
        /\ \A i \in 2..Len(m) : m[i].version = "1.0" /\ m[i].uid # NoUid}

\* Backup files earlier runs left in the manifest's directory, one per second
\* before this run started.
OldBackups(n) == {[name |-> 0 - k, mtime |-> 0 - k, data |-> <<>>] : k \in 1..n}

InitStore ==
    /\ mode = "store"
    /\ pc = "idle"
    /\ dry_run = FALSE /\ fix_missing = FALSE
    /\ backup_keep \in {KeepUnset, 0, 1}
    /\ backups \in {{}, OldBackups(1), OldBackups(BackupKeepDefault)}
    /\ backups = OldBackups(BackupKeepDefault) => backup_keep = KeepUnset
    /\ only_arg = NotGiven /\ exclude_arg = NotGiven
    /\ apps0 \in StoreManifests
    /\ apps_data = apps0
    /\ disk \in {NoFile, JsonFile(apps0, "full", 0)}
    /\ files = [k \in ArchiveKeys |-> Absent]
    /\ InitCommon

NextStore ==
    \/ StoreCallUpdate
    \/ StoreCallWriteJson
    \/ UpdBackup
    \/ UpdMkstemp
    \/ UpdDump
    \/ UpdFsync
    \/ UpdReplace
    \/ StoreReturn
    \/ Kill

SpecStore == InitStore /\ [][NextStore]_vars

\* ------------------------------------- successive writes (SpecRotate)
\* Values of backup_keep for which MaxWrites writes are enough to fill and
\* overflow the backups kept.
KeepCounts == 1..(MaxWrites - 2)

\* The next write of the series: update_Your_apps_file_atomic is called for
\* the one app of the list.
RotCall ==
    /\ mode = "rotate" /\ pc = "idle" /\ calls < MaxWrites
    /\ \E v \in VersionsOf(1), t \in StoreTimes :
         /\ call' = [fn |-> "update", uid |-> 1, version |-> v, time |-> t,
                     data |-> <<>>]
         /\ apps_data' = Upsert(apps_data, 1, v, t)
    /\ prev_disk' = disk
    /\ calls' = calls + 1
    /\ pc' = "upd_backup"
    /\ UNCHANGED <<args, store, files, net, idx, locals, counters, lists,
                   failure, commits>>

\* The write returned; a write that raised ends the series.
RotReturn ==
    /\ mode = "rotate" /\ pc = "upd_return"
    /\ pc' = "idle"
    /\ UNCHANGED <<args, apps_data, store, files, net, idx, locals, counters,
                   lists, call, failure, calls, hist>>

InitRotate ==
    /\ mode = "rotate"
    /\ pc = "idle"
    /\ dry_run = FALSE /\ fix_missing = FALSE
    /\ backup_keep \in KeepCounts
    /\ backups = {}
    /\ only_arg = NotGiven /\ exclude_arg = NotGiven
    /\ apps0 = <<[uid |-> 1, version |-> "1.0", updated_time |-> "t0"]>>
    /\ apps_data = apps0
    /\ disk = JsonFile(apps0, "full", 0)
    /\ files = [k \in ArchiveKeys |-> Absent]
    /\ InitCommon

NextRotate ==
    \/ RotCall
    \/ UpdBackup
    \/ UpdMkstemp
    \/ UpdDump
    \/ UpdFsync
    \/ UpdReplace
    \/ RotReturn

SpecRotate == InitRotate /\ [][NextRotate]_vars


\* -------------------------------------------------------- archive fetcher
\* The record the for loop is at, and its uid.
CurUid == apps_data[idx].uid
Target == <<CurUid, ds_version>>

\* Entries of downloaded_apps / skipped_apps: download_stream appends the
\* file name "{uid}_{version}.tgz", the loop appends "{uid}_{version}".
FileName(uid, version) == [uid |-> uid, version |-> version, ext |-> ".tgz"]
PlainName(uid, version) == [uid |-> uid, version |-> version, ext |-> ""]

\* Last-Modified header of a 200 response: missing, unparseable, or a date
\* with the zone GMT, with the zone +0200, or with -0000 (no zone known).
LastModified == {"absent", "garbage", "date", "date_offset", "date_nozone"}

\* parsedate_to_datetime: the zone of the datetime it returns; -0000 gives a
\* naive one.
ParsedZone(lm) ==
    CASE lm = "date" -> "utc"
      [] lm = "date_offset" -> "+02:00"
      [] lm = "date_nozone" -> "naive"
\* dt.astimezone(zone): the same instant, expressed in zone.
astimezone(from, zone) == zone
\* utcnow().replace(tzinfo=utc).isoformat()
NowUtc == "now_" \o "utc"

\* Mutant of FetchTimestamp: the header's own zone is kept.
FetchTimestamp_KeepsZone(lm) ==
    IF lm \in {"absent", "garbage"} THEN NowUtc
    ELSE "lm_" \o ParsedZone(lm)

\* Lines 65-76: the header's instant in UTC, else the current UTC instant.
FetchTimestamp(lm) ==
    IF lm = "absent" THEN NowUtc
    ELSE IF lm = "garbage" THEN NowUtc           \* except Exception
    ELSE LET dt    == ParsedZone(lm)
             aware == IF dt = "naive" THEN "utc" ELSE dt
         IN  "lm_" \o astimezone(aware, "utc")

\* Mutant of DsSkipExisting: an existing target is fetched again.
DsSkipExisting_Refetch ==
    /\ pc = "ds_check"
    /\ files[Target] # Absent
    /\ net' = Append(net, [kind |-> "download", uid |-> CurUid, version |-> ds_version])
    /\ files' = [files EXCEPT ![Target] = 0]
    /\ pc' = "ds_stream"
    /\ UNCHANGED <<args, apps_data, store, idx, locals, counters, lists, call,
                   failure, calls, hist>>

\* Lines 39-41: the target exists; it is noted as skipped and None returned.
DsSkipExisting ==
    /\ pc = "ds_check"
    /\ files[Target] # Absent
    /\ skipped_apps' = Append(skipped_apps, FileName(CurUid, ds_version))
    /\ updated_time' = None
    /\ ds_exit' = "exists"
    /\ pc' = "ds_return"
    /\ UNCHANGED <<args, apps_data, store, files, net, idx, current_version,
                   file_present, latest_version, ds_version, counters,
                   eval_results, downloaded_apps, call, failure, calls, hist>>

\* Lines 50-57: session.get, the status check and the open of the target.
DsRequest ==
    /\ pc = "ds_check"
    /\ files[Target] = Absent
    /\ net' = Append(net, [kind |-> "download", uid |-> CurUid, version |-> ds_version])
    /\ \E outcome \in {"neterr", "status", "ok", "open_failed"} :
         \/ /\ outcome \in {"neterr", "status"}
            /\ updated_time' = None
            /\ ds_exit' = outcome
            /\ pc' = "ds_return"
            /\ UNCHANGED <<files, failure>>
         \/ /\ outcome = "ok"
            /\ files' = [files EXCEPT ![Target] = 0]
            /\ pc' = "ds_stream"
            /\ UNCHANGED <<updated_time, ds_exit, failure>>
         \/ /\ outcome = "open_failed"
            /\ failure' = "local_io"
            /\ pc' = "aborted"
            /\ UNCHANGED <<files, updated_time, ds_exit>>
    /\ UNCHANGED <<args, apps_data, store, idx, current_version, file_present,
                   latest_version, ds_version, counters, lists, call, calls, hist>>

\* Lines 58-60: one chunk of the payload is written to the target.
DsWriteChunk ==
    /\ pc = "ds_stream"
    /\ files[Target] < NumChunks
    /\ files' = [files EXCEPT ![Target] = @ + 1]
    /\ UNCHANGED <<args, pc, apps_data, store, net, idx, locals, counters, lists,
                   call, failure, calls, hist>>

\* Mutant of DsCleanup: the except branch returns without unlinking.
DsCleanup_KeepsPartial(fs, target) == fs

\* Lines 87-95: the partial file is unlinked after a requests.RequestException.
DsCleanup(fs, target) == [fs EXCEPT ![target] = Absent]

\* iter_content raises a requests.RequestException.
DsTransportError ==
    /\ pc = "ds_stream"
    /\ files' = DsCleanup(files, Target)
    /\ updated_time' = None
    /\ ds_exit' = "stream_err"
    /\ pc' = "ds_return"
    /\ UNCHANGED <<args, apps_data, store, net, idx, current_version,
                   file_present, latest_version, ds_version, counters, lists,
                   call, failure, calls, hist>>

\* fh.write raises OSError: no except clause of download_stream matches, the
\* exception leaves the function and the loop.
DsLocalWriteError ==
    /\ pc = "ds_stream"
    /\ files[Target] < NumChunks
    /\ failure' = "local_io"
    /\ pc' = "aborted"
    /\ UNCHANGED <<args, apps_data, store, files, net, idx, locals, counters,
                   lists, call, calls, hist>>

\* Lines 62-85: the stream ended; the name is noted, the timestamp derived.
DsFinish ==
    /\ pc = "ds_stream"
    /\ files[Target] = NumChunks
    /\ downloaded_apps' = Append(downloaded_apps, FileName(CurUid, ds_version))
    /\ \E lm \in LastModified : updated_time' = FetchTimestamp(lm)
    /\ ds_exit' = "ok"
    /\ pc' = "ds_return"
    /\ UNCHANGED <<args, apps_data, store, files, net, idx, current_version,
                   file_present, latest_version, ds_version, counters,
                   eval_results, skipped_apps, call, failure, calls, hist>>


\* ---------------------------------------------------------------- sync loop
create_eval_result(uid, current, latest, action, reason, fp) ==
    [uid |-> uid, current |-> current, latest |-> latest, action |-> action,
     reason |-> reason, file_present |-> fp]

\* check_file_present: {outdir}/{uid}_{version}.tgz exists.
check_file_present(fs, uid, version) == fs[<<uid, version>>] # Absent

\* Answers get_latest_version_safe can meet; only "ok" carries a release name.
Responses == {"ok", "status", "badjson", "empty", "noname", "neterr"}

get_latest_version_safe(uid, resp) == IF resp = "ok" THEN RemoteLatest(uid) ELSE None

\* Lines 1284-1287: an entry without uid is passed over.
LoopSkipNoUid ==
    /\ mode = "sync" /\ pc = "loop"
    /\ idx <= Len(apps_data)
    /\ CurUid = NoUid
    /\ idx' = idx + 1
    /\ UNCHANGED <<args, pc, apps_data, store, files, net, locals, counters,
                   lists, call, failure, calls, hist>>

\* part.strip() and int(part) of parse_uid_list for the parts that occur.
StripPart(part) == IF part = " 2" THEN "2" ELSE IF part = " " THEN "" ELSE part
IsIntLiteral(str) == str \in {"1", "2"}
IntOf(str) == IF str = "1" THEN 1 ELSE 2

\* parse_uid_list (1080-1103): empty parts are passed over, a part that is
\* no integer raises ValueError, the others are collected as integers.
parse_uid_list(parts) ==
    LET kept == {k \in DOMAIN parts : StripPart(parts[k]) # ""} IN
    IF \E k \in kept : ~IsIntLiteral(StripPart(parts[k]))
    THEN [raised |-> TRUE, uids |-> {}]
    ELSE [raised |-> FALSE, uids |-> {IntOf(StripPart(parts[k])) : k \in kept}]

\* Lines 1265-1266: the filters are parsed when the options are given; a
\* ValueError reaches the handler of __main__ before the loop starts.
ParseFilters ==
    /\ mode = "sync" /\ pc = "parse"
    /\ LET only == parse_uid_list(only_arg)
           excl == parse_uid_list(exclude_arg) IN
       IF \/ only_arg # NotGiven /\ only.raised
          \/ exclude_arg # NotGiven /\ excl.raised
       THEN /\ failure' = "value"
            /\ pc' = "aborted"
            /\ UNCHANGED <<only_uids, exclude_uids>>
       ELSE /\ only_uids' = IF only_arg # NotGiven THEN UidFilter(only.uids)
                                                   ELSE NoFilter
            /\ exclude_uids' = IF exclude_arg # NotGiven THEN UidFilter(excl.uids)
                                                         ELSE NoFilter
            /\ pc' = "loop"
            /\ UNCHANGED failure
    /\ UNCHANGED <<options, apps_data, store, files, net, idx, locals, counters,
                   lists, call, calls, hist>>

\* Mutant of PassesFilters: the --only list is not consulted.
PassesFilters_OnlyIgnored(uid) ==
    exclude_uids.given => uid \notin exclude_uids.uids

\* Lines 1290-1295: the conditions under which the loop goes on to evaluate.
PassesFilters(uid) ==
    /\ only_uids.given => uid \in only_uids.uids
    /\ exclude_uids.given => uid \notin exclude_uids.uids

\* Lines 1290-1295: a record the filters leave out is passed over.
LoopSkipFiltered ==
    /\ mode = "sync" /\ pc = "loop"
    /\ idx <= Len(apps_data)
    /\ CurUid # NoUid
    /\ ~PassesFilters(CurUid)
    /\ idx' = idx + 1
    /\ UNCHANGED <<args, pc, apps_data, store, files, net, locals, counters,
                   lists, call, failure, calls, hist>>

\* Lines 1297-1312: the record is counted and its declared file looked for.
LoopEval ==
    /\ mode = "sync" /\ pc = "loop"
    /\ idx <= Len(apps_data)
    /\ CurUid # NoUid
    /\ PassesFilters(CurUid)
    /\ total_apps' = total_apps + 1
    /\ current_version' = apps_data[idx].version
    /\ file_present' = check_file_present(files, CurUid, apps_data[idx].version)
    /\ missing_files' = IF check_file_present(files, CurUid, apps_data[idx].version)
                        THEN missing_files ELSE missing_files + 1
    /\ pc' = "lookup"
    /\ UNCHANGED <<args, apps_data, store, files, net, idx, latest_version,
                   updated_time, ds_version, ds_exit, to_update, up_to_date,
                   errors, lists, call, failure, calls, hist>>

\* Mutant of Lookup: a lookup without an answer is sent again at once.
Lookup_Resent ==
    /\ pc = "lookup"
    /\ \E resp \in Responses :
         /\ latest_version' = get_latest_version_safe(CurUid, resp)
         /\ net' = IF resp = "neterr"
                   THEN net \o <<[kind |-> "lookup", uid |-> CurUid, version |-> None],
                                 [kind |-> "lookup", uid |-> CurUid, version |-> None]>>
                   ELSE Append(net, [kind |-> "lookup", uid |-> CurUid, version |-> None])
    /\ pc' = "classify"
    /\ UNCHANGED <<args, apps_data, store, files, idx, current_version,
                   file_present, updated_time, ds_version, ds_exit, counters,
                   lists, call, failure, calls, hist>>

\* Line 1314: the latest version is asked for.
Lookup ==
    /\ pc = "lookup"
    /\ net' = Append(net, [kind |-> "lookup", uid |-> CurUid, version |-> None])
    /\ \E resp \in Responses : latest_version' = get_latest_version_safe(CurUid, resp)
    /\ pc' = "classify"
    /\ UNCHANGED <<args, apps_data, store, files, idx, current_version,
                   file_present, updated_time, ds_version, ds_exit, counters,
                   lists, call, failure, calls, hist>>

\* Mutant of LookupFailed: the loop is left (break) instead of continued.
LookupFailed_Break ==
    /\ pc = "classify"
    /\ latest_version = None
    /\ eval_results' = Append(eval_results,
          create_eval_result(CurUid, current_version, None, "error",
                             "latest version not available", file_present))
    /\ errors' = errors + 1
    /\ skipped_apps' = Append(skipped_apps, PlainName(CurUid, current_version))
    /\ pc' = "done"
    /\ UNCHANGED <<args, apps_data, store, files, net, idx, locals, total_apps,
                   to_update, up_to_date, missing_files, downloaded_apps, call,
                   failure, calls, hist>>

\* Lines 1315-1323: no latest version; the record is an error, the loop goes on.
LookupFailed ==
    /\ pc = "classify"
    /\ latest_version = None
    /\ eval_results' = Append(eval_results,
          create_eval_result(CurUid, current_version, None, "error",
                             "latest version not available", file_present))
    /\ errors' = errors + 1
    /\ skipped_apps' = Append(skipped_apps, PlainName(CurUid, current_version))
    /\ idx' = idx + 1
    /\ pc' = "loop"
    /\ UNCHANGED <<args, apps_data, store, files, net, locals, total_apps,
                   to_update, up_to_date, missing_files, downloaded_apps, call,
                   failure, calls, hist>>

\* Mutant of PlanUpdate: the dry-run flag is not looked at before the download.
PlanUpdate_Downloads ==
    /\ pc = "classify"
    /\ latest_version # None /\ latest_version # current_version
    /\ dry_run
    /\ to_update' = to_update + 1
    /\ ds_version' = latest_version
    /\ pc' = "ds_check"
    /\ UNCHANGED <<args, apps_data, store, files, net, idx, current_version,
                   file_present, latest_version, updated_time, ds_exit,
                   total_apps, up_to_date, errors, missing_files, lists, call,
                   failure, calls, hist>>

\* Lines 1325-1335: an update is available and the run is a dry-run.
PlanUpdate ==
    /\ pc = "classify"
    /\ latest_version # None /\ latest_version # current_version
    /\ dry_run
    /\ to_update' = to_update + 1
    /\ skipped_apps' = Append(skipped_apps, PlainName(CurUid, current_version))
    /\ eval_results' = Append(eval_results,
          create_eval_result(CurUid, current_version, latest_version,
                             "plan-update", "dry-run", file_present))
    /\ idx' = idx + 1
    /\ pc' = "loop"
    /\ UNCHANGED <<args, apps_data, store, files, net, locals, total_apps,
                   up_to_date, errors, missing_files, downloaded_apps, call,
                   failure, calls, hist>>

\* Lines 1325-1337: an update is available; download_stream(uid, latest).
StartUpdate ==
    /\ pc = "classify"
    /\ latest_version # None /\ latest_version # current_version
    /\ ~dry_run
    /\ to_update' = to_update + 1
    /\ ds_version' = latest_version
    /\ pc' = "ds_check"
    /\ UNCHANGED <<args, apps_data, store, files, net, idx, current_version,
                   file_present, latest_version, updated_time, ds_exit,
                   total_apps, up_to_date, errors, missing_files, lists, call,
                   failure, calls, hist>>

\* Mutant of PlanRedownload: a planned re-download counts as an update.
PlanRedownload_CountsUpdate ==
    /\ pc = "classify"
    /\ latest_version # None /\ latest_version = current_version
    /\ file_present = FALSE /\ fix_missing
    /\ dry_run
    /\ to_update' = to_update + 1
    /\ skipped_apps' = Append(skipped_apps, PlainName(CurUid, current_version))
    /\ eval_results' = Append(eval_results,
          create_eval_result(CurUid, current_version, latest_version,
                             "plan-redownload", "missing file", FALSE))
    /\ idx' = idx + 1
    /\ pc' = "loop"
    /\ UNCHANGED <<args, apps_data, store, files, net, locals, total_apps,
                   up_to_date, errors, missing_files, downloaded_apps, call,
                   failure, calls, hist>>

\* Lines 1357-1365: up to date, file missing, --fix-missing, dry-run.
PlanRedownload ==
    /\ pc = "classify"
    /\ latest_version # None /\ latest_version = current_version
    /\ file_present = FALSE /\ fix_missing
    /\ dry_run
    /\ skipped_apps' = Append(skipped_apps, PlainName(CurUid, current_version))
    /\ eval_results' = Append(eval_results,
          create_eval_result(CurUid, current_version, latest_version,
                             "plan-redownload", "missing file", FALSE))
    /\ idx' = idx + 1
    /\ pc' = "loop"
    /\ UNCHANGED <<args, apps_data, store, files, net, locals, counters,
                   downloaded_apps, call, failure, calls, hist>>

\* Lines 1366-1367: up to date, file missing; download_stream(uid, current).
StartRedownload ==
    /\ pc = "classify"
    /\ latest_version # None /\ latest_version = current_version
    /\ file_present = FALSE /\ fix_missing
    /\ ~dry_run
    /\ ds_version' = current_version
    /\ pc' = "ds_check"
    /\ UNCHANGED <<args, apps_data, store, files, net, idx, current_version,
                   file_present, latest_version, updated_time, ds_exit,
                   counters, lists, call, failure, calls, hist>>

\* Mutant of SkipUpToDate: a missing archive is fetched even without
\* --fix-missing.
SkipUpToDate_FetchesMissing ==
    /\ pc = "classify"
    /\ latest_version # None /\ latest_version = current_version
    /\ ~(file_present = FALSE /\ fix_missing)
    /\ IF file_present
       THEN /\ up_to_date' = up_to_date + 1
            /\ skipped_apps' = Append(skipped_apps, PlainName(CurUid, current_version))
            /\ eval_results' = Append(eval_results,
                  create_eval_result(CurUid, current_version, latest_version,
                                     "skip", "already up-to-date", file_present))
            /\ idx' = idx + 1
            /\ pc' = "loop"
            /\ UNCHANGED ds_version
       ELSE /\ ds_version' = current_version
            /\ pc' = "ds_check"
            /\ UNCHANGED <<up_to_date, skipped_apps, eval_results, idx>>
    /\ UNCHANGED <<args, apps_data, store, files, net, current_version,
                   file_present, latest_version, updated_time, ds_exit,
                   total_apps, to_update, errors, missing_files,
                   downloaded_apps, call, failure, calls, hist>>

\* Lines 1384-1391.
SkipUpToDate ==
    /\ pc = "classify"
    /\ latest_version # None /\ latest_version = current_version
    /\ ~(file_present = FALSE /\ fix_missing)
    /\ up_to_date' = up_to_date + 1
    /\ skipped_apps' = Append(skipped_apps, PlainName(CurUid, current_version))
    /\ eval_results' = Append(eval_results,
          create_eval_result(CurUid, current_version, latest_version, "skip",
                             "already up-to-date", file_present))
    /\ idx' = idx + 1
    /\ pc' = "loop"
    /\ UNCHANGED <<args, apps_data, store, files, net, locals, total_apps,
                   to_update, errors, missing_files, downloaded_apps, call,
                   failure, calls, hist>>

\* The decision recorded when download_stream returned None
\* (lines 1348-1354 and 1377-1383).
FailedResult ==
    IF latest_version # current_version
    THEN create_eval_result(CurUid, current_version, latest_version, "error",
                            "download failed", file_present)
    ELSE create_eval_result(CurUid, current_version, latest_version, "error",
                            "redownload failed", FALSE)

\* Mutant of DownloadFailed: the in-memory entry is marked although the fetch
\* returned None.
DownloadFailed_Marks ==
    /\ pc = "ds_return"
    /\ updated_time = None
    /\ errors' = errors + 1
    /\ eval_results' = Append(eval_results, FailedResult)
    /\ apps_data' = Upsert(apps_data, CurUid, ds_version, "now_utc")
    /\ idx' = idx + 1
    /\ pc' = "loop"
    /\ UNCHANGED <<args, store, files, net, locals, total_apps,
                   to_update, up_to_date, missing_files, downloaded_apps,
                   skipped_apps, call, failure, calls, hist>>

\* Lines 1348-1354 / 1377-1383: download_stream returned None; the record is
\* an error and the loop goes on.
DownloadFailed ==
    /\ pc = "ds_return"
    /\ updated_time = None
    /\ errors' = errors + 1
    /\ eval_results' = Append(eval_results, FailedResult)
    /\ idx' = idx + 1
    /\ pc' = "loop"
    /\ UNCHANGED <<args, apps_data, store, files, net, locals, total_apps,
                   to_update, up_to_date, missing_files, downloaded_apps,
                   skipped_apps, call, failure, calls, hist>>

\* Mutant of UpdEnter: the commit does not look at what download_stream
\* returned.
UpdEnter_Unchecked ==
    /\ pc = "ds_return"
    /\ call' = [fn |-> "update", uid |-> CurUid, version |-> ds_version,
                time |-> updated_time, data |-> <<>>]
    /\ apps_data' = Upsert(apps_data, CurUid, ds_version, updated_time)
    /\ prev_disk' = disk
    /\ commits' = Append(commits, [idx |-> idx, uid |-> CurUid,
                                   version |-> ds_version, time |-> updated_time])
    /\ pc' = "upd_backup"
    /\ UNCHANGED <<args, store, files, net, idx, locals, counters, lists,
                   failure, calls>>

\* Lines 1338-1340 / 1368-1370: download_stream returned a timestamp;
\* update_Your_apps_file_atomic is entered and mutates the list (110-120).
UpdEnter ==
    /\ pc = "ds_return"
    /\ updated_time # None
    /\ call' = [fn |-> "update", uid |-> CurUid, version |-> ds_version,
                time |-> updated_time, data |-> <<>>]
    /\ apps_data' = Upsert(apps_data, CurUid, ds_version, updated_time)
    /\ prev_disk' = disk
    /\ commits' = Append(commits, [idx |-> idx, uid |-> CurUid,
                                   version |-> ds_version, time |-> updated_time])
    /\ pc' = "upd_backup"
    /\ UNCHANGED <<args, store, files, net, idx, locals, counters, lists,
                   failure, calls>>

\* The decision recorded after the commit (lines 1341-1347 and 1371-1376).
CommittedResult ==
    IF latest_version # current_version
    THEN create_eval_result(CurUid, current_version, latest_version, "updated",
                            "downloaded and file updated", TRUE)
    ELSE create_eval_result(CurUid, current_version, latest_version,
                            "redownloaded", "declared file was missing", TRUE)

RecordCommitted ==
    /\ mode = "sync" /\ pc = "upd_return"
    /\ eval_results' = Append(eval_results, CommittedResult)
    /\ idx' = idx + 1
    /\ pc' = "loop"
    /\ UNCHANGED <<args, apps_data, store, files, net, locals, counters,
                   downloaded_apps, skipped_apps, call, failure, calls, hist>>

\* The for loop is exhausted.
LoopDone ==
    /\ mode = "sync" /\ pc = "loop"
    /\ idx > Len(apps_data)
    /\ pc' = "done"
    /\ UNCHANGED <<args, apps_data, store, files, net, idx, locals, counters,
                   lists, call, failure, calls, hist>>

Init ==
    /\ mode = "sync"
    /\ pc = "loop"
    /\ dry_run \in BOOLEAN /\ fix_missing \in BOOLEAN
    /\ backup_keep \in {0, 1}
    /\ backups = {}
    /\ only_arg = NotGiven /\ exclude_arg = NotGiven
    /\ apps0 \in Manifests
    /\ apps_data = apps0
    /\ disk = JsonFile(apps0, "full", 0)
    /\ files \in [ArchiveKeys -> {Absent, NumChunks}]
    /\ \A k \in ArchiveKeys :        \* archives of apps the manifest does not list stay out
         (\A i \in 1..Len(apps0) : apps0[i].uid # k[1]) => files[k] = Absent
    /\ InitCommon

Next ==
    \/ LoopSkipNoUid
    \/ LoopEval
    \/ Lookup
    \/ LookupFailed
    \/ PlanUpdate
    \/ StartUpdate
    \/ PlanRedownload
    \/ StartRedownload
    \/ SkipUpToDate
    \/ DsSkipExisting
    \/ DsRequest
    \/ DsWriteChunk
    \/ DsTransportError
    \/ DsLocalWriteError
    \/ DsFinish
    \/ DownloadFailed
    \/ UpdEnter
    \/ UpdBackup
    \/ UpdMkstemp
    \/ UpdDump
    \/ UpdFsync
    \/ UpdReplace
    \/ RecordCommitted
    \/ LoopDone
    \/ Kill

Spec == Init /\ [][Next]_vars

\* A sync pass started with --only and --exclude.
InitFilter ==
    /\ mode = "sync"
    /\ pc = "parse"
    /\ dry_run \in BOOLEAN /\ fix_missing \in BOOLEAN
    /\ backup_keep = 0
    /\ backups = {}
    /\ only_arg \in OnlyArgs /\ exclude_arg \in ExcludeArgs
    /\ apps0 \in Manifests
    /\ apps_data = apps0
    /\ disk = JsonFile(apps0, "full", 0)
    /\ files \in {[k \in ArchiveKeys |-> Absent],
                  [k \in ArchiveKeys |->
                      IF \E i \in 1..Len(apps0) : apps0[i].uid = k[1]
                      THEN NumChunks ELSE Absent]}
    /\ InitCommon

NextFilter ==
    \/ ParseFilters
    \/ LoopSkipFiltered
    \/ LoopSkipNoUid
    \/ LoopEval
    \/ Lookup
    \/ LookupFailed
    \/ PlanUpdate
    \/ StartUpdate
    \/ PlanRedownload
    \/ StartRedownload
    \/ SkipUpToDate
    \/ DsSkipExisting
    \/ DsRequest
    \/ DsWriteChunk
    \/ DsTransportError
    \/ DsLocalWriteError
    \/ DsFinish
    \/ DownloadFailed
    \/ UpdEnter
    \/ UpdBackup
    \/ UpdMkstemp
    \/ UpdDump
    \/ UpdFsync
    \/ UpdReplace
    \/ RecordCommitted
    \/ LoopDone
    \/ Kill

SpecFilter == InitFilter /\ [][NextFilter]_vars


\* ------------------------------------------------------- JSON documents
\* A JSON value is a type tag and its text; an object is the sequence of its
\* members in insertion order, any other entry of a list has no members.
JInt(s) == [t |-> "int", s |-> s]
JStr(s) == [t |-> "str", s |-> s]
Null == [t |-> "null", s |-> ""]
AttributeError == [t |-> "raise", s |-> "AttributeError"]
Member(k, v) == [k |-> k, v |-> v]
Dict(items) == [t |-> "dict", items |-> items]
NotADict == [t |-> "str", items |-> <<>>]
List(items) == [t |-> "list", items |-> items]

isinstance(v, type) == v.t = type
Has(app, k) == \E i \in 1..Len(app.items) : app.items[i].k = k
Keys(app) == {app.items[i].k : i \in 1..Len(app.items)}
Item(app, k) == app.items[CHOOSE i \in 1..Len(app.items) : app.items[i].k = k].v
\* app.get(k): None for a missing key, AttributeError when app has no get.
Get(app, k) ==
    IF ~isinstance(app, "dict") THEN AttributeError
    ELSE IF Has(app, k) THEN Item(app, k) ELSE Null

\* str.strip() on the strings of the model.
strip(s) ==
    CASE s = " a " -> "a"
      [] s = " "   -> ""
      [] s = " 1.0" -> "1.0"
      [] s = " TZ " -> "TZ"
      [] s = " Other " -> "Other"
      [] OTHER -> s

\* version_re.match(v)
VersionShaped == {"1.0", "1.1", "2.1"}

\* Timestamps: "T" is a date and time of day, followed by the offset text.
\* datetime.fromisoformat accepts these four after the Z translation.
IsoParsed(s) ==
    CASE s = "T+00:00" -> [ok |-> TRUE, tz |-> "+00:00"]
      [] s = "T+02:00" -> [ok |-> TRUE, tz |-> "+02:00"]
      [] s = "T"       -> [ok |-> TRUE, tz |-> "naive"]
      [] OTHER -> [ok |-> FALSE, tz |-> "naive"]

_normalize_iso8601(ts) ==
    LET s0 == strip(ts)
        s  == IF s0 = "TZ" THEN "T+00:00" ELSE s0
        dt == IsoParsed(s)
    IN  IF ~dt.ok THEN <<FALSE, ts>>
        ELSE IF dt.tz = "naive" THEN <<FALSE, ts>>
        ELSE <<TRUE, "T" \o dt.tz>>

_is_iso8601_with_tz(ts) == _normalize_iso8601(ts)[1]

\* ------------------------------------------------------------ validation
NoIndex == -1
Issue(sev, msg, ref) == [sev |-> sev, msg |-> msg, ref |-> ref]
When(cond, issue) == IF cond THEN <<issue>> ELSE <<>>
Count(issues, sev) == Len(SelectSeq(issues, LAMBDA i : i.sev = sev))
required == <<"uid", "version", "name", "appid", "updated_time">>

\* Mutant of EntryUid: the entry is asked for its uid whatever it is.
EntryUid_Unguarded(app) == Get(app, "uid")

\* uid = app.get("uid") if isinstance(app, dict) else None
EntryUid(app) == IF isinstance(app, "dict") THEN Get(app, "uid") ELSE Null

SeenAt(seen, uid) == (CHOOSE p \in seen : p[1] = uid)[2]

\* Mutant of DuplicateIssues: every record with an integer uid is flagged.
DuplicateIssues_FlagsFirst(app, i, seen) ==
    IF isinstance(Get(app, "uid"), "int")
    THEN <<Issue("ERR", "duplicate uid", i)>> ELSE <<>>

\* The duplicate-uid check of one object.
DuplicateIssues(app, i, seen) ==
    IF isinstance(Get(app, "uid"), "int") /\ \E p \in seen : p[1] = Get(app, "uid").s
    THEN <<Issue("ERR", "duplicate uid", SeenAt(seen, Get(app, "uid").s))>>
    ELSE <<>>

SeenAfter(app, i, seen) ==
    IF isinstance(Get(app, "uid"), "int") /\ ~\E p \in seen : p[1] = Get(app, "uid").s
    THEN seen \cup {<<Get(app, "uid").s, i>>}
    ELSE seen

\* The issues of one object, in the order the checks append them.
DictIssues(app, i, seen) ==
    LET ut == Get(app, "updated_time")
        v  == strip(Get(app, "version").s)
    IN  When(\E j \in 1..Len(required) : ~Has(app, required[j]),
             Issue("ERR", "Missing required fields", NoIndex))
        \o When(Has(app, "uid") /\ ~isinstance(Item(app, "uid"), "int"),
                Issue("ERR", "uid must be an integer", NoIndex))
        \o When(Has(app, "version") /\ ~isinstance(Item(app, "version"), "str"),
                Issue("ERR", "version must be a string", NoIndex))
        \o When(Has(app, "name") /\ ~isinstance(Item(app, "name"), "str"),
                Issue("ERR", "name must be a string", NoIndex))
        \o When(Has(app, "appid") /\ ~isinstance(Item(app, "appid"), "str"),
                Issue("ERR", "appid must be a string", NoIndex))
        \o When(Has(app, "updated_time")
                    /\ (~isinstance(ut, "str") \/ ~_is_iso8601_with_tz(ut.s)),
                Issue("ERR", "updated_time must be ISO8601 with timezone", NoIndex))
        \o When(isinstance(Get(app, "version"), "str") /\ v = "",
                Issue("ERR", "version must not be empty", NoIndex))
        \o When(isinstance(Get(app, "version"), "str") /\ v # ""
                    /\ v \notin VersionShaped,
                Issue("WARN", "version format is unusual", NoIndex))
        \o When(isinstance(Get(app, "name"), "str") /\ strip(Get(app, "name").s) = "",
                Issue("WARN", "name is empty", NoIndex))
        \o When(isinstance(Get(app, "appid"), "str") /\ strip(Get(app, "appid").s) = "",
                Issue("WARN", "appid is empty", NoIndex))
        \o DuplicateIssues(app, i, seen)

EntryIssues(app, i, seen) ==
    IF ~isinstance(app, "dict")
    THEN <<Issue("NOTE", "Entry is not an object/dict", NoIndex)>>
    ELSE DictIssues(app, i, seen)

EntryStatus(issues) ==
    IF Count(issues, "ERR") > 0 THEN "invalid"
    ELSE IF Count(issues, "WARN") > 0 THEN "warning"
    ELSE "valid"

\* if not isinstance(apps_data, list): one invalid result, error count 1.
ValNotAList ==
    /\ pc = "val_start"
    /\ ~isinstance(document, "list")
    /\ results' = <<[index |-> NoIndex, uid |-> Null,
                     issues |-> <<Issue("NOTE", "Top-level JSON must be a list", NoIndex)>>,
                     status |-> "invalid"]>>
    /\ val_errors' = 1
    /\ val_warnings' = 0
    /\ pc' = "val_done"
    /\ UNCHANGED <<mode, dry_run, fix_missing, backup_keep, apps0, only_arg,
                   exclude_arg, document, val_idx, seen_uids, reformat, main,
                   onboarding, only_uids, exclude_uids, apps_data, store, files, net, idx,
                   locals, counters, lists, call, failure, calls, hist>>

ValEnterLoop ==
    /\ pc = "val_start"
    /\ isinstance(document, "list")
    /\ pc' = "val_loop"
    /\ UNCHANGED <<args, apps_data, store, files, net, idx, locals, counters,
                   lists, call, failure, calls, hist>>

\* One iteration of for idx, app in enumerate(apps_data).
ValEntry ==
    /\ pc = "val_loop"
    /\ val_idx < Len(document.items)
    /\ LET app    == document.items[val_idx + 1]
           uid    == EntryUid(app)
           issues == EntryIssues(app, val_idx, seen_uids)
       IN  IF isinstance(uid, "raise")
           THEN /\ pc' = "val_raised"
                /\ UNCHANGED <<val_idx, results, val_errors, val_warnings, seen_uids>>
           ELSE /\ results' = Append(results,
                        [index |-> val_idx, uid |-> uid, issues |-> issues,
                         status |-> EntryStatus(issues)])
                /\ val_errors' = val_errors + Count(issues, "ERR")
                /\ val_warnings' = val_warnings
                        + (IF Count(issues, "ERR") > 0 THEN 0 ELSE Count(issues, "WARN"))
                /\ seen_uids' = IF isinstance(app, "dict")
                                THEN SeenAfter(app, val_idx, seen_uids)
                                ELSE seen_uids
                /\ val_idx' = val_idx + 1
                /\ pc' = "val_loop"
    /\ UNCHANGED <<mode, dry_run, fix_missing, backup_keep, apps0, only_arg,
                   exclude_arg, document, reformat, main, onboarding,
                   only_uids, exclude_uids,
                   apps_data, store, files, net, idx, locals, counters, lists,
                   call, failure, calls, hist>>

\* return results, errors, warnings
ValReturn ==
    /\ pc = "val_loop"
    /\ val_idx = Len(document.items)
    /\ pc' = "val_done"
    /\ UNCHANGED <<args, apps_data, store, files, net, idx, locals, counters,
                   lists, call, failure, calls, hist>>

\* Entries a hand-edited Your_apps.json can hold.
Good(uid, name) ==
    Dict(<<Member("name", JStr(name)), Member("uid", JInt(uid)),
           Member("appid", JStr(name)), Member("updated_time", JStr("T+00:00")),
           Member("version", JStr("1.0"))>>)
ValEntries ==
    { Good("1", "a"), Good("2", "b"),
      Dict(<<Member("uid", JInt("1")), Member("version", JStr("weird")),
             Member("updated_time", JStr("TZ"))>>),
      Dict(<<Member("uid", JStr("1")), Member("name", JStr(" ")),
             Member("appid", JStr("a")), Member("version", JStr("1.1")),
             Member("updated_time", JStr("T"))>>),
      NotADict,
      Dict(<<Member("uid", JInt("1")), Member("name", Null),
             Member("appid", JInt("7")), Member("version", JInt("1")),
             Member("updated_time", JStr("garbage"))>>),
      Dict(<<Member("name", JStr("a")), Member("appid", JStr(" ")),
             Member("version", JStr(" ")), Member("updated_time", Null)>>),
      Dict(<<Member("name", JStr(" ")), Member("uid", JInt("2")),
             Member("appid", JStr("b")), Member("updated_time", JStr("T+02:00")),
             Member("version", JStr("weird"))>>) }

RECURSIVE ListsUpTo(_, _)
ListsUpTo(S, n) ==
    IF n = 0 THEN {<<>>}
    ELSE ListsUpTo(S, n - 1) \cup [1..n -> S]

Documents ==
    {List(l) : l \in ListsUpTo(ValEntries, MaxRecords)}
        \cup {[t |-> "dict", items |-> <<>>]}

InitValidate ==
    /\ disk = NoFile /\ backups = {}
    /\ InitLocals
    /\ mode = "validate_fn"
    /\ pc = "val_start"
    /\ MainIdle /\ OnboardingIdle
    /\ dry_run = FALSE /\ fix_missing = FALSE /\ backup_keep = 0
    /\ only_arg = NotGiven /\ exclude_arg = NotGiven
    /\ apps0 = <<>> /\ apps_data = <<>>
    /\ files = [k \in ArchiveKeys |-> Absent]
    /\ document \in Documents
    /\ ReformatIdle
    /\ val_idx = 0
    /\ results = <<>> /\ val_errors = 0 /\ val_warnings = 0
    /\ seen_uids = {}

NextValidate ==
    \/ ValNotAList
    \/ ValEnterLoop
    \/ ValEntry
    \/ ValReturn

SpecValidate == InitValidate /\ [][NextValidate]_vars

\* ------------------------------------------------------------ reformatting
key_order == <<"name", "uid", "appid", "updated_time", "version">>
\* The other keys of the model, as sorted() lists them.
SortedExtras == <<"alpha", "zeta">>

\* str.lower() and the order of str comparison on the names of the model.
lower(s) ==
    CASE s = "A" -> "a"
      [] s = "B" -> "b"
      [] s = "None" -> "none"
      [] OTHER -> s
StrRank(s) ==
    CASE s = ""  -> 0
      [] s = "7" -> 1
      [] s = "a" -> 2
      [] s = "b" -> 3
      [] s = "none" -> 4
      [] OTHER -> 5

\* str(x) and int(x) of a JSON value.
str(v) == IF isinstance(v, "null") THEN "None" ELSE v.s
NumberOf(s) == CASE s = "1" -> 1 [] s = "2" -> 2 [] s = "7" -> 7 [] OTHER -> 0
int(v) ==
    IF v.t \in {"int", "str"} /\ v.s \in {"0", "1", "2", "7"}
    THEN [ok |-> TRUE, n |-> NumberOf(v.s)]
    ELSE [ok |-> FALSE, n |-> 0]

\* x.get(k, default)
GetOr(app, k, default) ==
    IF ~isinstance(app, "dict") THEN AttributeError
    ELSE IF Has(app, k) THEN Item(app, k) ELSE default

\* val.strip() for a string value, the value itself otherwise.
StrippedValue(v) == IF isinstance(v, "str") THEN JStr(strip(v.s)) ELSE v

\* normalized: a new dict with the keys of app in their order.
Normalized(app) ==
    LET trimmed == [i \in 1..Len(app.items) |->
                        Member(app.items[i].k, StrippedValue(app.items[i].v))]
        ut == Get(Dict(trimmed), "updated_time")
    IN  Dict([i \in 1..Len(trimmed) |->
                IF /\ trimmed[i].k = "updated_time"
                   /\ isinstance(ut, "str")
                   /\ _normalize_iso8601(ut.s)[1]
                THEN Member("updated_time", JStr(_normalize_iso8601(ut.s)[2]))
                ELSE trimmed[i]])

IsExtra(k) == \A j \in 1..Len(key_order) : key_order[j] # k

\* base: the keys of key_order that are present, in that order.
BaseKeys(normalized) == SelectSeq(key_order, LAMBDA k : Has(normalized, k))

\* The entry as appended to ordered.
Reordered(app) ==
    IF ~isinstance(app, "dict") THEN app
    ELSE LET normalized == Normalized(app)
             keys == BaseKeys(normalized)
                        \o SelectSeq(SortedExtras,
                                     LAMBDA k : Has(normalized, k) /\ IsExtra(k))
         IN  Dict([i \in 1..Len(keys) |-> Member(keys[i], Item(normalized, keys[i]))])

\* Mutant of InputAfter: the records are normalized in place.
InputAfter_InPlace(apps) == [i \in 1..Len(apps) |-> Reordered(apps[i])]

\* What the call leaves in the list it was given: app is only read.
InputAfter(apps) == apps

\* The sort keys; ok is FALSE when computing the key raises.
NameOnlyKey(x) ==
    IF ~isinstance(x, "dict") THEN [ok |-> FALSE, k |-> <<0, 0>>]
    ELSE [ok |-> TRUE, k |-> <<StrRank(lower(str(GetOr(x, "name", JStr(""))))), 0>>]

\* Mutant of NameKey: the uid does not break ties.
NameKey_NoTieBreak(x) == NameOnlyKey(x)

NameKey(x) ==
    IF ~isinstance(x, "dict") THEN [ok |-> FALSE, k |-> <<0, 0>>]
    ELSE [ok |-> TRUE,
          k |-> <<StrRank(lower(str(GetOr(x, "name", JStr(""))))),
                  IF isinstance(Get(x, "uid"), "int") THEN int(Get(x, "uid")).n ELSE 0>>]

UidKey(x) ==
    IF ~isinstance(x, "dict") THEN [ok |-> FALSE, k |-> <<0, 0>>]
    ELSE [ok |-> int(GetOr(x, "uid", JInt("0"))).ok,
          k |-> <<int(GetOr(x, "uid", JInt("0"))).n,
                  StrRank(lower(str(GetOr(x, "name", JStr("")))))>>]

KeyLess(a, b) == a[1] < b[1] \/ (a[1] = b[1] /\ a[2] < b[2])

\* Mutant of StableSort: records with equal keys come out in reverse order.
RECURSIVE StableSort_TiesReversed(_, _)
StableSort_TiesReversed(items, keys) ==
    IF items = <<>> THEN <<>>
    ELSE LET m == CHOOSE i \in 1..Len(items) :
                    /\ \A j \in 1..Len(items) : ~KeyLess(keys[j], keys[i])
                    /\ \A j \in (i + 1)..Len(items) : KeyLess(keys[i], keys[j])
             rest(seq) == [j \in 1..(Len(seq) - 1) |->
                              IF j < m THEN seq[j] ELSE seq[j + 1]]
         IN  <<items[m]>> \o StableSort_TiesReversed(rest(items), rest(keys))

\* list.sort(key=...): stable, ascending.
RECURSIVE StableSort(_, _)
StableSort(items, keys) ==
    IF items = <<>> THEN <<>>
    ELSE LET m == CHOOSE i \in 1..Len(items) :
                    /\ \A j \in 1..Len(items) : ~KeyLess(keys[j], keys[i])
                    /\ \A j \in 1..(i - 1) : KeyLess(keys[i], keys[j])
             rest(seq) == [j \in 1..(Len(seq) - 1) |->
                              IF j < m THEN seq[j] ELSE seq[j + 1]]
         IN  <<items[m]>> \o StableSort(rest(items), rest(keys))

\* ordered.sort(key=f); an exception of a key leaves the list as it was.
SortedBy(ordered, keys) ==
    IF \E i \in 1..Len(keys) : ~keys[i].ok
    THEN [raised |-> TRUE, items |-> ordered]
    ELSE [raised |-> FALSE,
          items |-> StableSort(ordered, [i \in 1..Len(keys) |-> keys[i].k])]

format_apps_for_readability(apps, by) ==
    LET ordered == [i \in 1..Len(apps) |-> Reordered(apps[i])]
        byUid   == SortedBy(ordered, [i \in 1..Len(ordered) |-> UidKey(ordered[i])])
        byName  == SortedBy(ordered, [i \in 1..Len(ordered) |-> NameKey(ordered[i])])
        onlyName == SortedBy(ordered, [i \in 1..Len(ordered) |-> NameOnlyKey(ordered[i])])
    IN  IF by = "uid"
        THEN IF byUid.raised THEN onlyName ELSE byUid
        ELSE byName

\* formatted = format_apps_for_readability(m)
FormatCall ==
    /\ pc = "fmt_start"
    /\ formatted' = format_apps_for_readability(document.items, sort_by)
    /\ document' = List(InputAfter(document.items))
    /\ pc' = IF formatted'.raised THEN "fmt_raised" ELSE "fmt_once"
    /\ UNCHANGED <<mode, dry_run, fix_missing, backup_keep, apps0, only_arg,
                   exclude_arg, val_idx, results, val_errors, val_warnings,
                   seen_uids, sort_by, formatted_again, main, onboarding,
                   only_uids, exclude_uids,
                   apps_data, store, files, net, idx, locals, counters, lists,
                   call, failure, calls, hist>>

\* format_apps_for_readability applied to its own result
FormatAgain ==
    /\ pc = "fmt_once"
    /\ formatted_again' = format_apps_for_readability(formatted.items, sort_by)
    /\ formatted' = [formatted EXCEPT !.items = InputAfter(formatted.items)]
    /\ pc' = IF formatted_again'.raised THEN "fmt_raised" ELSE "fmt_twice"
    /\ UNCHANGED <<mode, dry_run, fix_missing, backup_keep, apps0, only_arg,
                   exclude_arg, validation, sort_by, main, onboarding,
                   only_uids, exclude_uids,
                   apps_data, store, files, net, idx, locals, counters, lists,
                   call, failure, calls, hist>>

\* Longest list handed to format_apps_for_readability.
MaxEntries == 3

\* Entries a hand-edited Your_apps.json can hold, in any key order.
FmtEntries ==
    { Dict(<<Member("uid", JInt("2")), Member("version", JStr("1.0")),
             Member("name", JStr("a")), Member("appid", JStr("a")),
             Member("updated_time", JStr("T+00:00"))>>),
      Dict(<<Member("zeta", JStr(" a ")), Member("name", JStr(" a ")),
             Member("alpha", Null), Member("updated_time", JStr(" TZ ")),
             Member("uid", JInt("1"))>>),
      Dict(<<Member("version", JStr(" 1.0")), Member("uid", JStr("1")),
             Member("updated_time", JStr("T+02:00")), Member("name", JStr("B"))>>),
      Dict(<<Member("updated_time", JStr("TZ")), Member("uid", Null),
             Member("name", JStr("A"))>>),
      NotADict,
      Dict(<<Member("uid", JInt("1")), Member("updated_time", JStr("T"))>>) }

InitFormat ==
    /\ disk = NoFile /\ backups = {}
    /\ InitLocals
    /\ mode = "format_fn"
    /\ pc = "fmt_start"
    /\ MainIdle /\ OnboardingIdle
    /\ dry_run = FALSE /\ fix_missing = FALSE /\ backup_keep = 0
    /\ only_arg = NotGiven /\ exclude_arg = NotGiven
    /\ apps0 = <<>> /\ apps_data = <<>>
    /\ files = [k \in ArchiveKeys |-> Absent]
    /\ document \in {List(l) : l \in ListsUpTo(FmtEntries, MaxEntries)}
    /\ val_idx = 0
    /\ results = <<>> /\ val_errors = 0 /\ val_warnings = 0
    /\ seen_uids = {}
    /\ sort_by \in {"name", "uid"}
    /\ formatted = NotCalled
    /\ formatted_again = NotCalled

NextFormat ==
    \/ FormatCall
    \/ FormatAgain

SpecFormat == InitFormat /\ [][NextFormat]_vars

\* ------------------------------------------------ fetch_splunkbase_catalog
\* max_age_hours, in hours.
MaxAgeHours == 24
\* Ages of the cache file in hours; a file dated in the future has a negative
\* one.
Ages == {-1, 0, 23, 24, 25}

\* title.lower().replace("-", "").replace("_", "").replace(" ", "")
NormalizedTitle(title) ==
    CASE title = "My App" -> "myapp"
      [] title = "my_app" -> "myapp"
      [] title = "Other"  -> "other"
      [] OTHER -> title

\* bool(x) of a JSON value.
Truthy(v) ==
    CASE isinstance(v, "null") -> FALSE
      [] isinstance(v, "str")  -> v.s # ""
      [] isinstance(v, "int")  -> v.s # "0"
      [] OTHER -> TRUE

\* catalog[normalized] = value
CatalogPut(cat, k, v) ==
    [x \in (DOMAIN cat) \cup {k} |-> IF x = k THEN v ELSE cat[x]]

EmptyCatalog == [x \in {} |-> Null]

\* Lines 621-636: the loop over apps_list from the entry at position i on;
\* None.strip() and int() of a text without digits raise.
RECURSIVE CatalogFrom(_, _, _)
CatalogFrom(apps_list, i, cat) ==
    IF i > Len(apps_list) THEN [raised |-> FALSE, data |-> cat]
    ELSE LET app == apps_list[i] IN
         IF ~isinstance(app, "dict") THEN CatalogFrom(apps_list, i + 1, cat)
         ELSE LET uid   == Get(app, "uid")
                  title == GetOr(app, "title", JStr(""))
                  appid == GetOr(app, "appid", JStr(""))
              IN  IF ~isinstance(title, "str") \/ ~isinstance(appid, "str")
                  THEN [raised |-> TRUE, data |-> EmptyCatalog]
                  ELSE IF ~(Truthy(uid) /\ strip(title.s) # "")
                  THEN CatalogFrom(apps_list, i + 1, cat)
                  ELSE IF ~int(uid).ok
                  THEN [raised |-> TRUE, data |-> EmptyCatalog]
                  ELSE CatalogFrom(apps_list, i + 1,
                          CatalogPut(cat, NormalizedTitle(strip(title.s)),
                                     [uid |-> int(uid).n,
                                      title |-> strip(title.s),
                                      appid |-> strip(appid.s)]))

\* Lines 611-615: apps_list of a parsed answer.
AppsList(resp) == IF resp.body \in {"list", "results"} THEN resp.apps ELSE <<>>

\* Mutant of Fresh: a cache of exactly max_age_hours is still used.
Fresh_Inclusive(file) == file.age <= MaxAgeHours

\* Line 587.
Fresh(file) == file.age < MaxAgeHours

\* Lines 583-593: the cache is there, young enough, json.load takes it and
\* len() accepts what it gave.
CacheUsable(file) ==
    /\ file.exists
    /\ Fresh(file)
    /\ file.content \in {"dict", "list"}

Returned(content, data) == [returned |-> TRUE, content |-> content, data |-> data]

\* Lines 583-591.
CatFromCache ==
    /\ mode = "catalog_fn" /\ pc = "cat_start"
    /\ CacheUsable(cache)
    /\ catalog' = Returned(cache.content, cache.data)
    /\ pc' = "cat_done"
    /\ UNCHANGED <<mode, dry_run, fix_missing, backup_keep, apps0, only_arg,
                   exclude_arg, validation, reformat, fail_on_errors,
                   format_json, exit_code, cache, cat_resp, onboarding,
                   only_uids, exclude_uids, apps_data, store, files, net, idx,
                   locals, counters, lists, call, failure, calls, hist>>

\* What the request can bring: an exception of the transport (status 0),
\* another status than 200, a body that is no JSON, a JSON list, an object
\* with "results", any other JSON value.
CatalogApps ==
    {Dict(<<Member("uid", JInt("1")), Member("title", JStr("My App")),
            Member("appid", JStr("a"))>>),
     Dict(<<Member("uid", JInt("2")), Member("title", JStr("my_app"))>>),
     Dict(<<Member("uid", JStr("7")), Member("title", JStr(" Other "))>>),
     Dict(<<Member("uid", JInt("1"))>>),
     Dict(<<Member("uid", JInt("0")), Member("title", JStr("Other"))>>),
     Dict(<<Member("uid", JInt("1")), Member("title", Null)>>),
     Dict(<<Member("uid", JStr("abc")), Member("title", JStr("Other"))>>),
     NotADict}

\* Longest apps list of an answer.
MaxApps == 2

CatalogResponses ==
    {[status |-> 0, body |-> "none", apps |-> <<>>],
     [status |-> 503, body |-> "none", apps |-> <<>>],
     [status |-> 200, body |-> "garbage", apps |-> <<>>],
     [status |-> 200, body |-> "other", apps |-> <<>>]}
    \cup {[status |-> 200, body |-> b, apps |-> a] :
            b \in {"list", "results"}, a \in ListsUpTo(CatalogApps, MaxApps)}

\* Lines 595-638 and the handler at 650-652: the request, and what becomes of
\* the answer.
CatRequest ==
    /\ mode = "catalog_fn" /\ pc = "cat_start"
    /\ ~CacheUsable(cache)
    /\ net' = Append(net, [kind |-> "catalog", uid |-> NoUid, version |-> None])
    /\ \E resp \in CatalogResponses :
          /\ cat_resp' = resp
          /\ IF resp.status # 200 \/ resp.body = "garbage" \/ AppsList(resp) = <<>>
             THEN /\ catalog' = Returned("dict", EmptyCatalog)
                  /\ pc' = "cat_done"
             ELSE LET built == CatalogFrom(AppsList(resp), 1, EmptyCatalog) IN
                  IF built.raised
                  THEN /\ catalog' = Returned("dict", EmptyCatalog)
                       /\ pc' = "cat_done"
                  ELSE /\ catalog' = [returned |-> FALSE, content |-> "dict",
                                      data |-> built.data]
                       /\ pc' = "cat_write"
    /\ UNCHANGED <<mode, dry_run, fix_missing, backup_keep, apps0, only_arg,
                   exclude_arg, validation, reformat, fail_on_errors,
                   format_json, exit_code, cache, onboarding, only_uids,
                   exclude_uids, apps_data, store, files, idx, locals,
                   counters, lists, call, failure, calls, hist>>

\* Lines 641-648: the cache is written; open() can fail, and so can the write
\* after open() has emptied the file. The catalog is returned either way.
CatWriteCache ==
    /\ mode = "catalog_fn" /\ pc = "cat_write"
    /\ \/ cache' = [exists |-> TRUE, age |-> 0, content |-> "dict",
                    data |-> catalog.data]
       \/ cache' = cache
       \/ cache' = [exists |-> TRUE, age |-> 0, content |-> "garbage",
                    data |-> <<>>]
    /\ catalog' = Returned("dict", catalog.data)
    /\ pc' = "cat_done"
    /\ UNCHANGED <<mode, dry_run, fix_missing, backup_keep, apps0, only_arg,
                   exclude_arg, validation, reformat, fail_on_errors,
                   format_json, exit_code, cat_resp, onboarding, only_uids,
                   exclude_uids, apps_data, store, files, net, idx, locals,
                   counters, lists, call, failure, calls, hist>>

\* A catalog as an earlier run cached it.
CachedCatalog ==
    CatalogPut(EmptyCatalog, "myapp", [uid |-> 1, title |-> "My App", appid |-> "a"])

Caches ==
    {NoCache}
    \cup {[exists |-> TRUE, age |-> a, content |-> "dict", data |-> d] :
            a \in Ages, d \in {EmptyCatalog, CachedCatalog}}
    \cup {[exists |-> TRUE, age |-> a, content |-> c, data |-> <<>>] :
            a \in Ages, c \in {"list", "scalar", "garbage"}}

InitCatalog ==
    /\ mode = "catalog_fn"
    /\ pc = "cat_start"
    /\ dry_run = FALSE /\ fix_missing = FALSE /\ backup_keep = KeepUnset
    /\ only_arg = NotGiven /\ exclude_arg = NotGiven
    /\ apps0 = <<>> /\ apps_data = <<>>
    /\ disk = NoFile /\ backups = {}
    /\ files = [k \in ArchiveKeys |-> Absent]
    /\ InitLocals
    /\ ValidationIdle /\ ReformatIdle /\ OnboardingIdle
    /\ fail_on_errors = FALSE /\ format_json = FALSE /\ exit_code = NotExited
    /\ cache \in Caches
    /\ cat_resp = NoResponse
    /\ catalog = NotFetched

NextCatalog ==
    \/ CatFromCache
    \/ CatRequest
    \/ CatWriteCache

SpecCatalog == InitCatalog /\ [][NextCatalog]_vars

\* --------------------------------------------------------------- __main__
\* --onboard with --from-files, and without.
Onboarding == {"onboard_files", "onboard_interactive"}

Login == [kind |-> "login", uid |-> NoUid, version |-> None]
Requests(kind) == Len(SelectSeq(net, LAMBDA r : r.kind = kind))

\* Mutant of Loadable: any file that exists is taken for loaded.
Loadable_Exists(file) == file.exists

\* json.load succeeds: the file exists and holds complete JSON text, a list
\* ("full") or something else ("object").
Loadable(file) == file.exists /\ file.written \in {"full", "object"}

\* Lines 1150-1155: a missing file raises FileNotFoundError, text that is no
\* JSON makes json.load raise; both reach the handler of __main__.
MainLoad ==
    /\ mode \in {"sync", "validate"} /\ pc = "main"
    /\ IF Loadable(disk)
       THEN /\ apps_data' = disk.data
            /\ document' = IF disk.written = "object"
                           THEN [t |-> "dict", items |-> <<>>]
                           ELSE List(disk.data)
            /\ pc' = IF mode = "validate" THEN "val_filters" ELSE "auth"
            /\ UNCHANGED failure
       ELSE /\ failure' = "load"
            /\ pc' = "aborted"
            /\ UNCHANGED <<apps_data, document>>
    /\ UNCHANGED <<mode, dry_run, fix_missing, backup_keep, apps0, only_arg,
                   exclude_arg, val_idx, results, val_errors, val_warnings,
                   seen_uids, reformat, main, onboarding, only_uids,
                   exclude_uids, store, files, net, idx, locals, counters,
                   lists, call, calls, hist>>

\* authenticate: one POST per round of its loop; a 403 or an exception asks
\* for the credentials again.
Authenticate(after) ==
    /\ Requests("login") < MaxCalls
    /\ net' = Append(net, Login)
    /\ pc' \in {pc, after}

\* Line 1263.
MainAuth ==
    /\ mode = "sync" /\ pc = "auth"
    /\ Authenticate("parse")
    /\ UNCHANGED <<args, apps_data, store, files, idx, locals, counters, lists,
                   call, failure, calls, hist>>

\* Mutant of ExitStatus: the handler of __main__ always ends with 0.
ExitStatus_ErrorsOnly(aborted) ==
    IF fail_on_errors /\ errors > 0 THEN 1 ELSE 0

\* Lines 1450-1452 after the loop, 1454-1458 in the handler.
ExitStatus(aborted) ==
    IF aborted
    THEN IF fail_on_errors THEN 1 ELSE 0
    ELSE IF fail_on_errors /\ errors > 0 THEN 1 ELSE 0

\* The process ends: after the reports, or in the handler of __main__.
MainExit ==
    /\ pc \in {"done", "aborted"}
    /\ mode \in {"sync", "validate"} \cup Onboarding
    /\ exit_code' = ExitStatus(pc = "aborted")
    /\ pc' = "exited"
    /\ UNCHANGED <<mode, dry_run, fix_missing, backup_keep, apps0, only_arg,
                   exclude_arg, validation, reformat, fail_on_errors,
                   format_json, catalog_cache, onboarding, only_uids, exclude_uids, apps_data,
                   store, files, net, idx, locals, counters, lists, call,
                   failure, calls, hist>>

\* ---- validate mode (lines 1158-1251)
\* Lines 1160-1161: the filters are parsed as in a sync run; a ValueError
\* reaches the handler of __main__.
MainValidateFilters ==
    /\ mode = "validate" /\ pc = "val_filters"
    /\ LET only == parse_uid_list(only_arg)
           excl == parse_uid_list(exclude_arg) IN
       IF \/ only_arg # NotGiven /\ only.raised
          \/ exclude_arg # NotGiven /\ excl.raised
       THEN /\ failure' = "value"
            /\ pc' = "aborted"
            /\ UNCHANGED <<only_uids, exclude_uids>>
       ELSE /\ only_uids' = IF only_arg # NotGiven THEN UidFilter(only.uids)
                                                   ELSE NoFilter
            /\ exclude_uids' = IF exclude_arg # NotGiven THEN UidFilter(excl.uids)
                                                         ELSE NoFilter
            /\ pc' = "val_start"
            /\ UNCHANGED failure
    /\ UNCHANGED <<options, apps_data, store, files, net, idx, locals, counters,
                   lists, call, calls, hist>>

\* Lines 1176-1179: the filters applied to the uid of a result.
ResultSelected(r) ==
    /\ only_uids.given =>
          (isinstance(r.uid, "int") /\ NumberOf(r.uid.s) \in only_uids.uids)
    /\ exclude_uids.given =>
          ~(isinstance(r.uid, "int") /\ NumberOf(r.uid.s) \in exclude_uids.uids)

\* Lines 1187-1192: the declared archive of a result is looked for.
ResultFileMissing(r) ==
    /\ r.index # NoIndex
    /\ isinstance(r.uid, "int")
    /\ isinstance(Get(document.items[r.index + 1], "version"), "str")
    /\ LET key == <<NumberOf(r.uid.s), Get(document.items[r.index + 1], "version").s>>
       IN  ~(key \in DOMAIN files /\ check_file_present(files, key[1], key[2]))

WriteJsonCall(data) ==
    [fn |-> "write_json", uid |-> NoUid, version |-> None, time |-> None,
     data |-> data]

\* Lines 1172-1246: the results are listed, an entry that is no object makes
\* .get raise into the handler of __main__ (1186); with --format-json the
\* manifest is reformatted and written, an exception of that is logged.
MainValidateReport ==
    /\ mode = "validate" /\ pc = "val_done"
    /\ IF \E i \in 1..Len(results) :
             /\ ResultSelected(results[i])
             /\ results[i].index # NoIndex
             /\ ~isinstance(document.items[results[i].index + 1], "dict")
       THEN /\ failure' = "value"
            /\ pc' = "aborted"
            /\ UNCHANGED <<missing_files, formatted, call, prev_disk>>
       ELSE /\ missing_files' =
                  Cardinality({i \in 1..Len(results) :
                      ResultSelected(results[i]) /\ ResultFileMissing(results[i])})
            /\ UNCHANGED failure
            /\ IF format_json
               THEN /\ formatted' = format_apps_for_readability(document.items, "name")
                    /\ IF formatted'.raised
                       THEN pc' = "val_exit" /\ UNCHANGED <<call, prev_disk>>
                       ELSE /\ call' = WriteJsonCall(formatted'.items)
                            /\ prev_disk' = disk
                            /\ pc' = "upd_backup"
               ELSE pc' = "val_exit" /\ UNCHANGED <<formatted, call, prev_disk>>
    /\ UNCHANGED <<mode, dry_run, fix_missing, backup_keep, apps0, only_arg,
                   exclude_arg, validation, sort_by, formatted_again, main,
                   onboarding, only_uids, exclude_uids, apps_data, store, files,
                   net, idx, current_version, file_present, latest_version,
                   updated_time, ds_version, ds_exit, total_apps, to_update,
                   up_to_date, errors, lists, calls, commits>>

\* Lines 1243-1246: atomic_write_json returned, or its exception was logged.
MainValidateWritten ==
    /\ mode = "validate" /\ pc \in {"upd_return", "raised"}
    /\ failure' = "none"
    /\ pc' = "val_exit"
    /\ UNCHANGED <<args, apps_data, store, files, net, idx, locals, counters,
                   lists, call, calls, hist>>

\* Lines 1248-1251.
MainValidateExit ==
    /\ mode = "validate" /\ pc = "val_exit"
    /\ exit_code' = IF val_errors > 0 THEN 1 ELSE 0
    /\ pc' = "exited"
    /\ UNCHANGED <<mode, dry_run, fix_missing, backup_keep, apps0, only_arg,
                   exclude_arg, validation, reformat, fail_on_errors,
                   format_json, catalog_cache, onboarding, only_uids, exclude_uids, apps_data,
                   store, files, net, idx, locals, counters, lists, call,
                   failure, calls, hist>>

\* ---- onboarding (lines 860-1076)
\* What the user types, or what the file names resolve to: uid 1, uid 2, or
\* nothing usable.
Inputs == {"1", "2", "x"}

\* The record built for a resolved uid (686-692, 960-966).
NewApp(uid) ==
    Dict(<<Member("name", JStr(IF uid = "1" THEN "a" ELSE "b")),
           Member("uid", JInt(uid)),
           Member("appid", JStr(IF uid = "1" THEN "a" ELSE "b")),
           Member("updated_time", JStr("T+00:00")),
           Member("version", JStr(RemoteLatest(NumberOf(uid))))>>)

\* existing_uids (923, 1009): the uid of every object that has one.
ExistingUids(apps) ==
    {Item(apps[i], "uid") : i \in {j \in 1..Len(apps) :
                                      isinstance(apps[j], "dict") /\ Has(apps[j], "uid")}}

InSeq(x, seq) == \E i \in 1..Len(seq) : seq[i] = x

\* Mutant of AlreadyKnown: the uids accepted in the batch are not consulted.
AlreadyKnown_ManifestOnly(uid) == JInt(uid) \in existing_uids

\* The two checks that skip a uid (944-950, 1032-1035).
AlreadyKnown(uid) == JInt(uid) \in existing_uids \/ InSeq(uid, uids_to_add)

\* Lines 866-923 and 996-1009: without file names to work on the files mode
\* returns; a manifest that is missing, unparseable or no list counts as
\* empty.
OnbLoad ==
    /\ mode \in Onboarding /\ pc = "main"
    /\ IF mode = "onboard_files" /\ batch = <<>>
       THEN /\ pc' = "done"
            /\ UNCHANGED <<existing_apps, existing_uids>>
       ELSE /\ existing_apps' = IF disk.exists /\ disk.written = "full"
                                THEN disk.data ELSE <<>>
            /\ existing_uids' = ExistingUids(existing_apps')
            /\ pc' = "onb_auth"
    /\ UNCHANGED <<mode, dry_run, fix_missing, backup_keep, apps0, only_arg,
                   exclude_arg, validation, reformat, main, batch, uids_to_add,
                   new_apps, only_uids, exclude_uids, apps_data, store, files,
                   net, idx, locals, counters, lists, call, failure, calls, hist>>

\* Lines 927 and 1016.
OnbAuth ==
    /\ mode \in Onboarding /\ pc = "onb_auth"
    /\ Authenticate(IF mode = "onboard_files" THEN "onb_catalog" ELSE "onb_input")
    /\ UNCHANGED <<args, apps_data, store, files, idx, locals, counters, lists,
                   call, failure, calls, hist>>

\* Line 930: the catalog is fetched unless a fresh copy is cached.
OnbCatalog ==
    /\ mode = "onboard_files" /\ pc = "onb_catalog"
    /\ \/ net' = Append(net, [kind |-> "catalog", uid |-> NoUid, version |-> None])
       \/ net' = net
    /\ pc' = "onb_item"
    /\ UNCHANGED <<args, apps_data, store, files, idx, locals, counters, lists,
                   call, failure, calls, hist>>

\* Lines 936-970: one file name: resolved or not, skipped or taken.
OnbItem ==
    /\ mode = "onboard_files" /\ pc = "onb_item"
    /\ batch # <<>>
    /\ batch' = Tail(batch)
    /\ LET uid == Head(batch)
           search == [kind |-> "search", uid |-> NoUid, version |-> None]
       IN  \/ /\ net' = Append(net, search)         \* no result
              /\ UNCHANGED <<uids_to_add, new_apps>>
           \/ /\ uid # "x"
              /\ AlreadyKnown(uid)
              /\ net' = Append(net, search)
              /\ UNCHANGED <<uids_to_add, new_apps>>
           \/ /\ uid # "x"
              /\ ~AlreadyKnown(uid)
              /\ net' = net \o <<search, [kind |-> "lookup", uid |-> NumberOf(uid),
                                          version |-> None]>>
              /\ \E resp \in Responses :
                    IF get_latest_version_safe(NumberOf(uid), resp) = None
                    THEN UNCHANGED <<uids_to_add, new_apps>>
                    ELSE /\ new_apps' = Append(new_apps, NewApp(uid))
                         /\ uids_to_add' = Append(uids_to_add, uid)
    /\ UNCHANGED <<mode, dry_run, fix_missing, backup_keep, apps0, only_arg,
                   exclude_arg, validation, reformat, main, existing_apps,
                   existing_uids, only_uids, exclude_uids, apps_data, store,
                   files, idx, locals, counters, lists, call, failure, calls,
                   hist, pc>>

\* Lines 1019-1043: one typed part: no integer, known already, or taken; the
\* prompt can also be cancelled.
OnbInput ==
    /\ mode = "onboard_interactive" /\ pc = "onb_input"
    /\ batch # <<>>
    /\ \/ /\ batch' = Tail(batch)
          /\ uids_to_add' = IF Head(batch) = "x" \/ AlreadyKnown(Head(batch))
                            THEN uids_to_add
                            ELSE Append(uids_to_add, Head(batch))
          /\ pc' = pc
       \/ /\ pc' = "done"                           \* EOFError, KeyboardInterrupt
          /\ UNCHANGED <<batch, uids_to_add>>
    /\ UNCHANGED <<mode, dry_run, fix_missing, backup_keep, apps0, only_arg,
                   exclude_arg, validation, reformat, main, existing_apps,
                   existing_uids, new_apps, only_uids, exclude_uids, apps_data,
                   store, files, net, idx, locals, counters, lists, call,
                   failure, calls, hist>>

\* Lines 1022-1047: the empty line ends the input.
OnbInputEnd ==
    /\ mode = "onboard_interactive" /\ pc = "onb_input"
    /\ batch = <<>>
    /\ batch' = uids_to_add
    /\ pc' = IF uids_to_add = <<>> THEN "done" ELSE "onb_item"
    /\ UNCHANGED <<mode, dry_run, fix_missing, backup_keep, apps0, only_arg,
                   exclude_arg, validation, reformat, main, existing_apps,
                   existing_uids, uids_to_add, new_apps, only_uids,
                   exclude_uids, apps_data, store, files, net, idx, locals,
                   counters, lists, call, failure, calls, hist>>

\* Lines 1051-1058: get_app_details for one accepted uid.
OnbDetails ==
    /\ mode = "onboard_interactive" /\ pc = "onb_item"
    /\ batch # <<>>
    /\ batch' = Tail(batch)
    /\ net' = Append(net, [kind |-> "details", uid |-> NumberOf(Head(batch)),
                           version |-> None])
    /\ \/ new_apps' = Append(new_apps, NewApp(Head(batch)))
       \/ new_apps' = new_apps
    /\ UNCHANGED <<mode, dry_run, fix_missing, backup_keep, apps0, only_arg,
                   exclude_arg, validation, reformat, main, existing_apps,
                   existing_uids, uids_to_add, only_uids, exclude_uids,
                   apps_data, store, files, idx, locals, counters, lists, call,
                   failure, calls, hist, pc>>

\* Mutant of MergedApps: the records found replace the manifest.
MergedApps_NewOnly(existing, found) == found

\* combined = existing_apps + new_apps (977, 1065)
MergedApps(existing, found) == existing \o found

\* Mutant of OnbMerge: the manifest is reformatted and written even when the
\* run found nothing to add.
OnbMerge_AlwaysWrites ==
    /\ mode \in Onboarding /\ pc = "onb_item"
    /\ batch = <<>>
    /\ formatted' = format_apps_for_readability(
                        MergedApps(existing_apps, new_apps), "name")
    /\ IF formatted'.raised
       THEN /\ failure' = "value"
            /\ pc' = "aborted"
            /\ UNCHANGED <<call, prev_disk>>
       ELSE /\ call' = WriteJsonCall(formatted'.items)
            /\ prev_disk' = disk
            /\ pc' = "upd_backup"
            /\ UNCHANGED failure
    /\ UNCHANGED <<mode, dry_run, fix_missing, backup_keep, apps0, only_arg,
                   exclude_arg, validation, sort_by, formatted_again, main,
                   onboarding, only_uids, exclude_uids, apps_data, store, files,
                   net, idx, locals, counters, lists, calls, commits>>

\* Lines 972-981 and 1060-1070: nothing to add, or the merged list is
\* reformatted (an exception of that leaves the function) and written.
OnbMerge ==
    /\ mode \in Onboarding /\ pc = "onb_item"
    /\ batch = <<>>
    /\ IF new_apps = <<>>
       THEN /\ pc' = "done"
            /\ UNCHANGED <<formatted, call, prev_disk, failure>>
       ELSE /\ formatted' = format_apps_for_readability(
                                MergedApps(existing_apps, new_apps), "name")
            /\ IF formatted'.raised
               THEN /\ failure' = "value"
                    /\ pc' = "aborted"
                    /\ UNCHANGED <<call, prev_disk>>
               ELSE /\ call' = WriteJsonCall(formatted'.items)
                    /\ prev_disk' = disk
                    /\ pc' = "upd_backup"
                    /\ UNCHANGED failure
    /\ UNCHANGED <<mode, dry_run, fix_missing, backup_keep, apps0, only_arg,
                   exclude_arg, validation, sort_by, formatted_again, main,
                   onboarding, only_uids, exclude_uids, apps_data, store, files,
                   net, idx, locals, counters, lists, calls, commits>>

\* Lines 981-987 and 1070-1076: the write returned, or its exception was
\* logged.
OnbWritten ==
    /\ mode \in Onboarding /\ pc \in {"upd_return", "raised"}
    /\ failure' = "none"
    /\ pc' = "done"
    /\ UNCHANGED <<args, apps_data, store, files, net, idx, locals, counters,
                   lists, call, calls, hist>>

\* Lists of records with one uid each, a record without uid as a hand edit
\* leaves it (padded text, a Z timestamp, keys in another order), an entry
\* that is no object.
OnbEntries ==
    {Good("1", "a"), Good("2", "b"), NotADict,
     Dict(<<Member("version", JStr(" 1.0")), Member("name", JStr(" a ")),
            Member("updated_time", JStr("TZ"))>>)}

\* Longest batch of inputs.
MaxBatch == 2

InitMainValidate ==
    /\ mode = "validate"
    /\ dry_run = FALSE /\ fix_missing = FALSE
    /\ only_arg \in {NotGiven, <<"1">>} /\ exclude_arg \in {NotGiven, <<"1", "x">>}
    /\ format_json \in BOOLEAN
    /\ apps0 = <<>>
    /\ disk \in {NoFile, JsonFile(<<>>, "partial", 0), JsonFile(<<>>, "object", 0)}
                \cup {JsonFile(m, "full", 0) : m \in ListsUpTo(OnbEntries, MaxRecords)}
    /\ files \in {[k \in ArchiveKeys |-> Absent], [k \in ArchiveKeys |-> NumChunks]}
    /\ batch = <<>>

InitMainOnboard ==
    /\ mode \in Onboarding
    /\ dry_run = FALSE /\ fix_missing = FALSE
    /\ only_arg = NotGiven /\ exclude_arg = NotGiven
    /\ format_json = FALSE
    /\ apps0 = <<>>
    /\ disk \in {NoFile, JsonFile(<<>>, "partial", 0), JsonFile(<<>>, "object", 0)}
                \cup {JsonFile(m, "full", 0) : m \in ListsUpTo(OnbEntries, MaxRecords)}
    /\ files = [k \in ArchiveKeys |-> Absent]
    /\ batch \in ListsUpTo(Inputs, MaxBatch)

\* A sync run from the command line.
InitMainSync ==
    /\ mode = "sync"
    /\ dry_run \in BOOLEAN /\ fix_missing \in BOOLEAN
    /\ only_arg \in OnlyArgs /\ exclude_arg \in {NotGiven, <<"1", "x">>}
    /\ format_json = FALSE
    /\ \E m \in Manifests :
         \/ /\ disk = JsonFile(m, "full", 0)
            /\ apps0 = m
            /\ files \in {[k \in ArchiveKeys |-> Absent],
                          [k \in ArchiveKeys |->
                              IF \E i \in 1..Len(m) : m[i].uid = k[1]
                              THEN NumChunks ELSE Absent]}
         \/ /\ disk \in {NoFile, JsonFile(<<>>, "partial", 0)}
            /\ apps0 = <<>>
            /\ files = [k \in ArchiveKeys |-> Absent]
    /\ batch = <<>>

InitMain ==
    /\ pc = "main"
    /\ backup_keep = 0
    /\ backups = {}
    /\ fail_on_errors \in BOOLEAN
    /\ exit_code = NotExited
    /\ CatalogIdle
    /\ \/ InitMainSync
       \/ InitMainValidate
       \/ InitMainOnboard
    /\ apps_data = <<>>
    /\ InitLocals
    /\ ValidationIdle
    /\ ReformatIdle
    /\ existing_apps = <<>> /\ existing_uids = {}
    /\ uids_to_add = <<>> /\ new_apps = <<>>

NextMain ==
    \/ MainLoad
    \/ MainAuth
    \/ MainExit
    \/ MainValidateFilters
    \/ ValNotAList
    \/ ValEnterLoop
    \/ ValEntry
    \/ ValReturn
    \/ MainValidateReport
    \/ MainValidateWritten
    \/ MainValidateExit
    \/ OnbLoad
    \/ OnbAuth
    \/ OnbCatalog
    \/ OnbItem
    \/ OnbInput
    \/ OnbInputEnd
    \/ OnbDetails
    \/ OnbMerge
    \/ OnbWritten
    \/ ParseFilters
    \/ LoopSkipFiltered
    \/ LoopSkipNoUid
    \/ LoopEval
    \/ Lookup
    \/ LookupFailed
    \/ PlanUpdate
    \/ StartUpdate
    \/ PlanRedownload
    \/ StartRedownload
    \/ SkipUpToDate
    \/ DsSkipExisting
    \/ DsRequest
    \/ DsWriteChunk
    \/ DsTransportError
    \/ DsLocalWriteError
    \/ DsFinish
    \/ DownloadFailed
    \/ UpdEnter
    \/ UpdBackup
    \/ UpdMkstemp
    \/ UpdDump
    \/ UpdFsync
    \/ UpdReplace
    \/ RecordCommitted
    \/ LoopDone
    \/ Kill

SpecMain == InitMain /\ [][NextMain]_vars

\* ---- an onboarding run on its own, with and without backups
InitOnboard ==
    /\ pc = "main"
    /\ backup_keep \in {0, 1}
    /\ backups = {}
    /\ fail_on_errors = FALSE
    /\ exit_code = NotExited
    /\ CatalogIdle
    /\ InitMainOnboard
    /\ apps_data = <<>>
    /\ InitLocals
    /\ ValidationIdle
    /\ ReformatIdle
    /\ existing_apps = <<>> /\ existing_uids = {}
    /\ uids_to_add = <<>> /\ new_apps = <<>>

NextOnboard ==
    \/ OnbLoad
    \/ OnbAuth
    \/ OnbCatalog
    \/ OnbItem
    \/ OnbInput
    \/ OnbInputEnd
    \/ OnbDetails
    \/ OnbMerge
    \/ UpdBackup
    \/ UpdMkstemp
    \/ UpdDump
    \/ UpdFsync
    \/ UpdReplace
    \/ OnbWritten
    \/ MainExit
    \/ Kill

SpecOnboard == InitOnboard /\ [][NextOnboard]_vars

\* ---- one sync pass, every step taken in the end
\* Manifests whose first record is an app with uid 1.
PassManifests == {m \in Manifests : m[1].uid = 1}

InitPass ==
    /\ mode = "sync"
    /\ pc = "parse"
    /\ dry_run \in BOOLEAN /\ fix_missing \in BOOLEAN
    /\ backup_keep = 0
    /\ backups = {}
    /\ only_arg \in {NotGiven, <<"1">>} /\ exclude_arg \in {NotGiven, <<"1", "x">>}
    /\ apps0 \in PassManifests
    /\ apps_data = apps0
    /\ disk = JsonFile(apps0, "full", 0)
    /\ files \in {[k \in ArchiveKeys |-> Absent],
                  [k \in ArchiveKeys |->
                      IF \E i \in 1..Len(apps0) : apps0[i].uid = k[1]
                      THEN NumChunks ELSE Absent]}
    /\ InitCommon

\* The interpreter runs the program on: a step that can be taken is taken.
SpecPass == InitPass /\ [][NextFilter]_vars /\ WF_vars(NextFilter)

\* ------------------------------------------------------------------ claims
Last(seq) == seq[Len(seq)]
Range(seq) == {seq[i] : i \in DOMAIN seq}

\* The manifest entry of a uid in a list: its first record with that uid.
Entry(apps, uid) == apps[FirstWithUid(apps, uid)]

\* The loaded manifest after the first k commits of the log.
RECURSIVE ApplyCommits(_, _)
ApplyCommits(log, k) ==
    IF k = 0 THEN apps0
    ELSE Upsert(ApplyCommits(log, k - 1), log[k].uid, log[k].version, log[k].time)

\* Records at positions 1..i that pass the uid check of the loop.
Evaluated(i) == Cardinality({j \in 1..i : j <= Len(apps0) /\ apps0[j].uid # NoUid})
LookupsSent == Cardinality({k \in DOMAIN net : net[k].kind = "lookup"})

\* C1: at every step of a manifest write, a kill included, Your_apps.json is
\* the complete file it was when the write was called or the complete new
\* manifest, never a partial one; when the write has returned it holds exactly
\* the written data, with the given uid at the new version.
C1_AtomicManifestWrite ==
    /\ disk.written = "full"
    /\ \/ disk = prev_disk
       \/ disk.exists /\ disk.data = WriteData
    /\ pc = "upd_return" =>
         /\ disk.exists /\ disk.data = WriteData
         /\ call.fn = "update" =>
              /\ FirstWithUid(disk.data, call.uid) # 0
              /\ Entry(disk.data, call.uid).version = call.version

\* Killed in the middle of the dump: the old manifest is still in place.
C1_Witness ==
    /\ pc = "killed"
    /\ tmp.exists /\ tmp.written = "partial"
    /\ disk.exists /\ disk = prev_disk /\ disk.data # WriteData

\* C2: the manifest on disk is the loaded manifest with a prefix of the
\* started commits applied: all of them, or all but the one in flight; outside
\* the write (so when the next lookup is made) it is all of them; commits are
\* started in manifest order.
C2_PrefixConsistency ==
    /\ disk.exists /\ disk.written = "full"
    /\ \E k \in 0..Len(commits) :
         /\ k >= Len(commits) - 1
         /\ disk.data = ApplyCommits(commits, k)
    /\ pc \in {"loop", "lookup", "classify", "ds_check", "ds_stream", "ds_return", "done"}
         => disk.data = ApplyCommits(commits, Len(commits))
    /\ \A i, j \in DOMAIN commits : i < j => commits[i].idx < commits[j].idx
    /\ \A i \in DOMAIN commits : commits[i].idx <= idx

\* Killed during the second commit: the first is on disk, the second is lost.
C2_Witness ==
    /\ pc = "killed"
    /\ Len(commits) = 2
    /\ disk.data = ApplyCommits(commits, 1)
    /\ disk.data # ApplyCommits(commits, 2)
    /\ disk.data # apps0

C4_WriteFailureStopsRun ==
    failure = "write" =>
        /\ pc = "aborted"
        /\ idx = Last(commits).idx
        /\ LookupsSent = Evaluated(idx)
        /\ Len(eval_results) = Evaluated(idx) - 1

\* The write failed and a record with a uid comes after the failed one.
C4_Witness ==
    /\ failure = "write"
    /\ idx < Len(apps_data)
    /\ apps_data[idx + 1].uid # NoUid

C6_NoTruncatedArchive ==
    pc # "ds_stream" =>
        \A k \in ArchiveKeys : files[k] \in {Absent, NumChunks}

\* C7: a download_stream call that finds its target makes no request, leaves
\* the archive directory as it is, appends the file name to skipped_apps and
\* returns without an exception; no file name is downloaded twice.
C7_IdempotentFetch ==
    /\ [][(pc = "ds_check" /\ files[Target] # Absent /\ pc' # "killed") =>
            /\ net' = net
            /\ files' = files
            /\ skipped_apps' = Append(skipped_apps, FileName(CurUid, ds_version))
            /\ downloaded_apps' = downloaded_apps
            /\ failure' = "none"
            /\ pc' = "ds_return"]_vars
    /\ [](\A i, j \in DOMAIN downloaded_apps :
            downloaded_apps[i] = downloaded_apps[j] => i = j)

\* A second fetch of a file this run has downloaded was skipped.
C7_Witness ==
    /\ pc = "ds_return" /\ ds_exit = "exists"
    /\ FileName(CurUid, ds_version) \in Range(downloaded_apps)

\* C8 (as claimed): when an update is available and download_stream found the
\* archive of the latest version already there, the record is not an error
\* and the error count stays.
C8_AlreadyPresentIsSkip ==
    [][(pc = "ds_return" /\ ds_exit = "exists"
            /\ latest_version # current_version /\ idx' = idx + 1) =>
          /\ errors' = errors
          /\ Last(eval_results').action # "error"]_vars

\* C9: a record whose lookup gave no version becomes an error with reason
\* "latest version not available", errors grows by one, the manifest (memory
\* and disk) and the archives are untouched, no request is sent, and the loop
\* moves to the next record; a pass that ends normally has a decision for
\* every record with a uid.
C9_LookupFailureIsolated ==
    /\ [][(pc = "classify" /\ latest_version = None /\ pc' # "killed") =>
            /\ eval_results' = Append(eval_results,
                  create_eval_result(CurUid, current_version, None, "error",
                                     "latest version not available", file_present))
            /\ errors' = errors + 1
            /\ apps_data' = apps_data
            /\ disk' = disk /\ tmp' = tmp /\ backups' = backups
            /\ files' = files
            /\ net' = net
            /\ pc' = "loop" /\ idx' = idx + 1]_vars
    /\ [](pc = "done" => Len(eval_results) = Evaluated(Len(apps0)))

\* After a failed lookup for the first record the second one is looked up.
C9_Witness ==
    /\ pc = "classify" /\ idx = 2
    /\ Len(eval_results) = 1
    /\ eval_results[1].reason = "latest version not available"
    /\ errors = 1

EvalPcs == {"loop", "lookup", "classify", "ds_check", "ds_stream", "ds_return"}

\* No step changes the manifest, in memory or on disk, nor a backup or a
\* temporary file.
ManifestUntouched ==
    /\ apps_data' = apps_data
    /\ disk' = disk
    /\ backups' = backups
    /\ tmp' = tmp

\* C11: when the fetch for an available update fails, the record's decision is
\* error / "download failed" and the error count grows by one; no step from
\* the start of the record's evaluation to that decision writes the manifest
\* or a backup, so the record keeps its version and updated_time in memory
\* and on disk.
C11_DownloadFailureKeepsState ==
    [][/\ (mode = "sync" /\ pc \in EvalPcs /\ pc' # "upd_backup")
            => ManifestUntouched
       /\ (/\ pc = "ds_return" /\ updated_time = None
           /\ latest_version # current_version
           /\ pc' = "loop")
            => /\ Len(eval_results') = Len(eval_results) + 1
               /\ eval_results' = Append(eval_results, Last(eval_results'))
               /\ Last(eval_results').uid = CurUid
               /\ Last(eval_results').action = "error"
               /\ Last(eval_results').reason = "download failed"
               /\ errors' = errors + 1
               /\ apps_data'[idx].version = current_version
               /\ apps_data'[idx].updated_time = apps_data[idx].updated_time
               /\ Entry(disk'.data, CurUid) = Entry(disk.data, CurUid)]_vars

C11_Witness ==
    /\ pc = "loop"
    /\ eval_results # <<>>
    /\ Last(eval_results).reason = "download failed"
    /\ ds_exit \in {"neterr", "status", "stream_err"}
    /\ errors = 1
    /\ apps_data = apps0
    /\ disk = JsonFile(apps0, "full", 0)
    /\ backups = {}

DownloadsSent == {k \in DOMAIN net : net[k].kind = "download"}

\* C12: in a dry-run no step changes Your_apps.json, the backup files or the
\* archive directory, no download request is sent, and every decision is one
\* of skip, plan-update, plan-redownload and error.
C12_DryRunFrame ==
    /\ [][dry_run => (files' = files /\ ManifestUntouched)]_vars
    /\ [](dry_run =>
            /\ DownloadsSent = {}
            /\ downloaded_apps = <<>>
            /\ \A k \in DOMAIN eval_results :
                 eval_results[k].action \in
                    {"skip", "plan-update", "plan-redownload", "error"})

C12_Witness ==
    /\ dry_run
    /\ pc = "done"
    /\ \E k \in DOMAIN eval_results : eval_results[k].action = "plan-update"
    /\ \E k \in DOMAIN eval_results : eval_results[k].action = "plan-redownload"
    /\ disk = JsonFile(apps0, "full", 0)

\* The record under evaluation is up to date and its re-download was started.
Redownloading == latest_version # None /\ latest_version = current_version

\* C13: latest = current, the declared archive missing, --fix-missing and no
\* dry-run: download_stream is called for (uid, current) and sends the
\* download request.  When it returns a timestamp the commit changes nothing
\* but the updated_time of the uid's manifest entry (its version stays) and
\* the decision is redownloaded.  When it returns None the decision is
\* error / "redownload failed" and the manifest stays as it was.
C13_FixMissingRedownload ==
    [][/\ (/\ pc = "classify" /\ Redownloading /\ file_present = FALSE
           /\ fix_missing /\ ~dry_run /\ pc' # "killed")
            => (pc' = "ds_check" /\ ds_version' = current_version)
       /\ (pc = "ds_check" /\ Redownloading /\ pc' # "killed")
            => net' = Append(net, [kind |-> "download", uid |-> CurUid,
                                   version |-> current_version])
       /\ (/\ pc = "ds_return" /\ Redownloading /\ updated_time # None
           /\ pc' = "upd_backup")
            => apps_data' = [apps_data EXCEPT
                  ![FirstWithUid(apps_data, CurUid)].updated_time = updated_time]
       /\ (mode = "sync" /\ pc = "upd_return" /\ Redownloading /\ pc' = "loop")
            => /\ Last(eval_results').action = "redownloaded"
               /\ Last(eval_results').uid = CurUid
               /\ disk.data = apps_data /\ disk.written = "full"
       /\ (/\ pc = "ds_return" /\ Redownloading /\ updated_time = None
           /\ pc' = "loop")
            => /\ Last(eval_results').action = "error"
               /\ Last(eval_results').reason = "redownload failed"
               /\ Last(eval_results').uid = CurUid
               /\ ManifestUntouched]_vars

\* C14: latest = current and the declared archive present, or --fix-missing
\* not given (the archive may then be missing): the decision is skip /
\* "already up-to-date", nothing is requested or written, the loop goes on.
C14_SkipIsDefault ==
    [][(/\ pc = "classify" /\ Redownloading
        /\ (files[<<CurUid, current_version>>] # Absent \/ ~fix_missing)
        /\ pc' # "killed")
         => /\ Len(eval_results') = Len(eval_results) + 1
            /\ eval_results' = Append(eval_results, Last(eval_results'))
            /\ Last(eval_results').uid = CurUid
            /\ Last(eval_results').action = "skip"
            /\ Last(eval_results').reason = "already up-to-date"
            /\ up_to_date' = up_to_date + 1
            /\ net' = net /\ files' = files
            /\ ManifestUntouched
            /\ pc' = "loop" /\ idx' = idx + 1]_vars

C14_Witness ==
    /\ pc = "loop"
    /\ ~fix_missing /\ ~dry_run
    /\ eval_results # <<>>
    /\ Last(eval_results).action = "skip"
    /\ files[<<Last(eval_results).uid, Last(eval_results).current>>] = Absent
    /\ DownloadsSent = {}
    /\ disk = JsonFile(apps0, "full", 0)

\* A record the loop has to evaluate: it has a uid, the uid is in the
\* inclusion set when --only was given and not in the exclusion set when
\* --exclude was given.
Selected(r) ==
    /\ r.uid # NoUid
    /\ only_uids.given => r.uid \in only_uids.uids
    /\ exclude_uids.given => r.uid \notin exclude_uids.uids

\* The selected records among the first i of the loaded manifest, in order.
SelectedUpTo(i) == SelectSeq(SubSeq(apps0, 1, i), Selected)
Lookups == SelectSeq(net, LAMBDA m : m.kind = "lookup")

\* C15: a record is evaluated exactly when it is selected.  A record that is
\* not selected is passed over by a step that changes nothing but the loop
\* position: no lookup, no download, no manifest write, no decision, no
\* counter.  A selected record is counted and looked up; the decisions, the
\* lookups and total_apps account for the selected records and no others.
C15_Filtering ==
    /\ [][/\ (/\ mode = "sync" /\ pc = "loop" /\ idx <= Len(apps_data)
              /\ ~Selected(apps_data[idx]) /\ pc' # "killed")
               => /\ idx' = idx + 1
                  /\ UNCHANGED <<net, files, apps_data, store, lists, counters,
                                 pc, hist>>
          /\ (/\ mode = "sync" /\ pc = "loop" /\ idx <= Len(apps_data)
              /\ Selected(apps_data[idx]) /\ pc' # "killed")
               => /\ pc' = "lookup" /\ idx' = idx
                  /\ total_apps' = total_apps + 1]_vars
    /\ [](pc \in {"loop", "done"} =>
            /\ Len(eval_results) = Len(SelectedUpTo(idx - 1))
            /\ \A k \in DOMAIN eval_results :
                  eval_results[k].uid = SelectedUpTo(idx - 1)[k].uid
            /\ Len(Lookups) = Len(SelectedUpTo(idx - 1))
            /\ \A k \in DOMAIN Lookups : Lookups[k].uid = SelectedUpTo(idx - 1)[k].uid
            /\ total_apps = Len(SelectedUpTo(idx - 1)))
    /\ [](/\ \A k \in DOMAIN net :
                \E i \in DOMAIN apps0 : Selected(apps0[i]) /\ apps0[i].uid = net[k].uid
          /\ \A k \in DOMAIN commits :
                \E i \in DOMAIN apps0 : Selected(apps0[i]) /\ apps0[i].uid = commits[k].uid)

C15_Witness ==
    /\ pc = "done"
    /\ only_uids.given /\ exclude_uids.given
    /\ only_arg = <<"1">> /\ exclude_arg = <<" 2", " ">>
    /\ Len(apps0) = MaxRecords
    /\ \E i \in DOMAIN apps0 : apps0[i].uid = NoUid
    /\ \E i \in DOMAIN apps0 : apps0[i].uid = 1
    /\ Len(eval_results) = 1
    /\ total_apps = 1

\* C16: no failure met while a record is looked up or fetched (lookup
\* failure, non-200 status, transport error, local failure while writing the
\* archive) leaves the loop: the step that ends the record's evaluation with
\* a failure adds one to the error count and moves on to the next record.
C16_RecordErrorsNeverAbort ==
    [][/\ (/\ mode = "sync"
           /\ pc \in {"lookup", "classify", "ds_check", "ds_stream", "ds_return"}
           /\ pc' # "killed")
            => pc' # "aborted"
       /\ (/\ mode = "sync" /\ pc' = "loop"
           /\ \/ pc = "classify" /\ latest_version = None
              \/ pc = "ds_return" /\ updated_time = None)
            => (errors' = errors + 1 /\ idx' = idx + 1)]_vars

\* C17: the loop commits version v for a uid (a new version or a refreshed
\* updated_time) only after download_stream wrote {uid}_{v}.tgz to the end
\* and returned its timestamp: at every commit, and ever after, the archive
\* of the committed version is complete, and every record that differs from
\* the loaded manifest names a complete archive.
C17_CommitAfterArchive ==
    /\ \A k \in DOMAIN commits :
          files[<<commits[k].uid, commits[k].version>>] = NumChunks
    /\ pc \in {"upd_backup", "upd_mkstemp", "upd_dump", "upd_fsync",
               "upd_replace", "upd_return"} /\ mode = "sync"
         => /\ ds_exit = "ok"
            /\ files[<<call.uid, call.version>>] = NumChunks
            /\ downloaded_apps # <<>>
            /\ Last(downloaded_apps) = FileName(call.uid, call.version)
    /\ \A i \in DOMAIN apps_data :
          apps_data[i] # apps0[i]
             => files[<<apps_data[i].uid, apps_data[i].version>>] = NumChunks
    /\ disk.exists /\ \A i \in DOMAIN disk.data :
          disk.data[i] # apps0[i]
             => files[<<disk.data[i].uid, disk.data[i].version>>] = NumChunks

C17_Witness ==
    /\ mode = "sync" /\ pc = "upd_return"
    /\ commits # <<>>
    /\ Last(commits).version # Entry(apps0, Last(commits).uid).version
    /\ Entry(disk.data, Last(commits).uid).version = Last(commits).version
    /\ files[<<Last(commits).uid, Last(commits).version>>] = NumChunks
    /\ DownloadsSent # {}

\* C18: in a series of successful manifest writes with backup_keep = N > 0,
\* after every write at most N backup files exist, and after N + 2 writes
\* exactly N exist, which are the N created last: the copies of the manifest
\* as it was before each of the last N writes.
C18_BackupRotation ==
    (mode = "rotate" /\ pc = "idle") =>
        /\ Cardinality(backups) <= backup_keep
        /\ calls = backup_keep + 2 =>
              /\ Cardinality(backups) = backup_keep
              /\ {b.mtime : b \in backups} =
                    (disk.mtime - backup_keep)..(disk.mtime - 1)

\* C19: a write that replaces an existing manifest while backups are enabled
\* first creates a backup file that did not exist before and holds the
\* manifest as it is on disk, and replaces the manifest only afterwards;
\* creating the backup leaves every existing backup file as it was (rotation
\* may remove one, nothing overwrites or changes one).
C19_BackupBeforeMutation ==
    [][/\ (/\ pc = "upd_backup" /\ pc' = "upd_mkstemp"
           /\ backup_keep # 0 /\ disk.exists)
            => /\ \E b \in backups' :
                    /\ b.data = disk.data /\ b.mtime = disk.mtime
                    /\ \A a \in backups : a.name # b.name
               /\ \A a \in backups :
                    \A b \in backups' : b.name = a.name => b = a
       /\ (/\ pc = "upd_replace" /\ disk' # disk
           /\ backup_keep # 0 /\ disk.exists)
            => \E b \in backups : b.data = disk.data /\ b.mtime = disk.mtime]_vars

\* C20: with backup_keep = 0 no step of a write creates, changes or deletes a
\* backup file, and the manifest is still replaced atomically: never partial,
\* either the file as it was at the call or the new data, the new data once
\* the write returned.  With backup_keep unset the write keeps backups as for
\* the default of 5: while fewer than 5 exist none is removed, never more
\* than 5 are left where there were at most 5, and a backup is removed only
\* to get back to 5, the oldest first.
C20_BackupKeepZeroAndDefault ==
    /\ [][/\ backup_keep = 0 => backups' = backups
          /\ (backup_keep = KeepUnset /\ pc = "upd_backup" /\ pc' = "upd_mkstemp")
               => /\ Cardinality(backups) < BackupKeepDefault
                       => \A a \in backups : \E b \in backups' : b.name = a.name
                  /\ Cardinality(backups) <= BackupKeepDefault
                       => Cardinality(backups') <= BackupKeepDefault
                  /\ backups' # backups
                       => /\ \E b \in backups' :
                                /\ b.name = now' /\ b.data = disk.data
                                /\ b.mtime = disk.mtime
                          /\ \A a \in backups \ backups' :
                                \/ a.name = now'
                                \/ /\ Cardinality(backups') = BackupKeepDefault
                                   /\ \A b \in backups' : a.mtime <= b.mtime]_vars
    /\ [](backup_keep = 0 =>
            /\ disk.written = "full"
            /\ disk = prev_disk \/ (disk.exists /\ disk.data = WriteData)
            /\ pc = "upd_return" => (disk.exists /\ disk.data = WriteData))

C20_Witness ==
    /\ backup_keep = 0
    /\ pc = "upd_return"
    /\ prev_disk.exists
    /\ disk # prev_disk
    /\ disk.data # prev_disk.data
    /\ backups = OldBackups(1)
\* ---- validation and reformatting
HasIntUid(app) ==
    /\ isinstance(app, "dict")
    /\ Has(app, "uid")
    /\ Item(app, "uid").t = "int"
\* An earlier entry of the document carries the same integer uid as entry i.
UidSeenBefore(i) ==
    \E j \in 1..(i - 1) :
        /\ HasIntUid(document.items[j])
        /\ Item(document.items[j], "uid").s = Item(document.items[i], "uid").s
DuplicateFlagged(r) == \E k \in 1..Len(r.issues) : r.issues[k].msg = "duplicate uid"

\* C21: when validate_apps_data has returned for a list, every record whose
\* integer uid already occurred earlier in the list carries the issue
\* "ERR: duplicate uid" and is classified invalid, and the first record with
\* that uid carries no duplicate issue.
C21_DuplicateUidReported ==
    (pc = "val_done" /\ isinstance(document, "list")) =>
        /\ Len(results) = Len(document.items)
        /\ \A i \in 1..Len(document.items) :
              HasIntUid(document.items[i]) =>
                  IF UidSeenBefore(i)
                  THEN /\ DuplicateFlagged(results[i])
                       /\ results[i].status = "invalid"
                       /\ \E k \in 1..Len(results[i].issues) :
                             /\ results[i].issues[k].msg = "duplicate uid"
                             /\ results[i].issues[k].sev = "ERR"
                  ELSE ~DuplicateFlagged(results[i])

\* Two records share uid 1: the first is valid, the second is invalid because
\* of the duplicate alone.
C21_Witness ==
    /\ pc = "val_done"
    /\ Len(results) = 2
    /\ HasIntUid(document.items[1]) /\ HasIntUid(document.items[2])
    /\ UidSeenBefore(2)
    /\ results[1].status = "valid"
    /\ results[2].status = "invalid"
    /\ Len(results[2].issues) = 1
    /\ val_errors = 1

ErrIssues(r) == Count(r.issues, "ERR")
WarnIssuesCounted(r) == IF r.status = "warning" THEN Count(r.issues, "WARN") ELSE 0
RECURSIVE SumErrIssues(_)
SumErrIssues(seq) ==
    IF seq = <<>> THEN 0 ELSE ErrIssues(seq[1]) + SumErrIssues(Tail(seq))
RECURSIVE SumWarnIssues(_)
SumWarnIssues(seq) ==
    IF seq = <<>> THEN 0 ELSE WarnIssuesCounted(seq[1]) + SumWarnIssues(Tail(seq))

\* C22: validate_apps_data never raises on a list, whatever its entries are
\* (not objects, fields missing or of the wrong type, timestamps that do not
\* parse); it returns one classification per entry, the i-th with index i,
\* and the error and warning totals of those classifications. A top level
\* that is not a list gives a single invalid result and the error count 1.
C22_ValidationTotal ==
    /\ pc # "val_raised"
    /\ (pc = "val_loop") =>
          /\ Len(results) = val_idx
          /\ val_idx <= Len(document.items)
    /\ (pc = "val_done" /\ isinstance(document, "list")) =>
          /\ Len(results) = Len(document.items)
          /\ \A i \in 1..Len(results) :
                /\ results[i].index = i - 1
                /\ results[i].status \in {"valid", "warning", "invalid"}
          /\ val_errors = SumErrIssues(results)
          /\ val_warnings = SumWarnIssues(results)
    /\ (pc = "val_done" /\ ~isinstance(document, "list")) =>
          /\ Len(results) = 1
          /\ results[1].status = "invalid"
          /\ results[1].index = NoIndex
          /\ val_errors = 1 /\ val_warnings = 0

\* A list of an entry that is no object and an object with wrongly typed
\* fields and a timestamp that does not parse has been classified.
C22_Witness ==
    /\ pc = "val_done"
    /\ isinstance(document, "list")
    /\ Len(document.items) = 2
    /\ ~isinstance(document.items[1], "dict")
    /\ isinstance(document.items[2], "dict")
    /\ Get(document.items[2], "updated_time") = JStr("garbage")
    /\ Len(results) = 2
    /\ results[1].status = "valid"
    /\ val_errors = 4

AllObjects(apps) == \A i \in 1..Len(apps) : isinstance(apps[i], "dict")

\* C23: for a manifest whose records are all objects, in both sort modes,
\* format_apps_for_readability returns, and applied to its own result it
\* returns that result again: the same records with the same values, in the
\* same order and with the same key order.
C23_ReformatIdempotent ==
    AllObjects(document.items) =>
        /\ pc # "fmt_raised"
        /\ (pc = "fmt_twice") =>
              /\ ~formatted.raised /\ ~formatted_again.raised
              /\ formatted_again.items = formatted.items

\* A second pass has run on a result that differs from the manifest given:
\* a timestamp was rewritten and two records with equal sort keys kept their
\* order under the name-only sort.
C23_Witness ==
    /\ pc = "fmt_twice"
    /\ sort_by = "uid"
    /\ Len(document.items) = 2
    /\ formatted.items # document.items
    /\ Get(document.items[1], "uid") = Null
    /\ Get(document.items[1], "updated_time") = JStr("TZ")
    /\ Get(formatted.items[1], "updated_time") = JStr("T+00:00")
    /\ Get(formatted.items[2], "uid") = JInt("2")

\* Some pairing of the records of out with the records of inp matches records
\* with the same set of keys.
SameRecordsByKeys(inp, out) ==
    /\ Len(out) = Len(inp)
    /\ \E p \in Permutations(1..Len(inp)) :
          \A i \in 1..Len(inp) :
              /\ isinstance(out[i], "dict") = isinstance(inp[p[i]], "dict")
              /\ Keys(out[i]) = Keys(inp[p[i]])
              /\ Len(out[i].items) = Len(inp[p[i]].items)

\* C24: a call of format_apps_for_readability leaves the list it was given
\* as it was (same records, order, keys and values), and a result it returns
\* has one record per record of that list, record for record with the same
\* set of keys.
C24_ReformatFrame ==
    /\ [][/\ (pc = "fmt_start" /\ pc' # "fmt_start") => document' = document
          /\ (pc = "fmt_once" /\ pc' # "fmt_once") =>
                /\ document' = document
                /\ formatted' = formatted]_vars
    /\ [](pc \in {"fmt_once", "fmt_twice"} =>
            SameRecordsByKeys(document.items, formatted.items))
    /\ [](pc = "fmt_twice" =>
            SameRecordsByKeys(formatted.items, formatted_again.items))

\* A result was returned whose records are in another order than given, with
\* a trimmed name, while the list given still holds the untrimmed one.
C24_Witness ==
    /\ pc = "fmt_once"
    /\ Len(document.items) = 2
    /\ Keys(document.items[1]) # Keys(document.items[2])
    /\ Get(document.items[2], "name") = JStr(" a ")
    /\ Get(formatted.items[1], "name") = JStr("a")
    /\ Get(formatted.items[1], "zeta") = JStr("a")
    /\ Keys(formatted.items[1]) = Keys(document.items[2])

KeyPosition(k) ==
    CASE k = "name" -> 1 [] k = "uid" -> 2 [] k = "appid" -> 3
      [] k = "updated_time" -> 4 [] k = "version" -> 5
      [] k = "alpha" -> 6 [] k = "zeta" -> 7 [] OTHER -> 8
\* Keys of key_order first and in that order, the other keys after them, sorted.
KeysCanonical(r) ==
    \A i, j \in 1..Len(r.items) :
        i < j => KeyPosition(r.items[i].k) < KeyPosition(r.items[j].k)
LowerName(r) == StrRank(lower(str(GetOr(r, "name", JStr("")))))
IntUid(r) == isinstance(Get(r, "uid"), "int")
UidValue(r) == NumberOf(Get(r, "uid").s)
UidConverts(r) == ~Has(r, "uid") \/ (Get(r, "uid").t \in {"int", "str"}
                                      /\ Get(r, "uid").s \in {"0", "1", "2", "7"})
UidOrZero(r) == IF Has(r, "uid") THEN UidValue(r) ELSE 0
SortedByName(out) ==
    \A i, j \in 1..Len(out) : i < j => LowerName(out[i]) <= LowerName(out[j])

\* C25: in a result of format_apps_for_readability every record lists the
\* keys name, uid, appid, updated_time, version that it has, in that order,
\* and then its other keys sorted; the records are in the order of their
\* lower-cased names, records of equal name in the order of their integer
\* uids, or, when the uid sort is requested, in the order of their integer
\* uids, records of equal uid in the order of their names.
C25_CanonicalOrder ==
    (pc = "fmt_once") =>
        /\ \A i \in 1..Len(formatted.items) : KeysCanonical(formatted.items[i])
        /\ sort_by = "name" =>
              /\ SortedByName(formatted.items)
              /\ \A i, j \in 1..Len(formatted.items) :
                    (/\ i < j
                     /\ LowerName(formatted.items[i]) = LowerName(formatted.items[j])
                     /\ IntUid(formatted.items[i]) /\ IntUid(formatted.items[j]))
                        => UidValue(formatted.items[i]) <= UidValue(formatted.items[j])
        /\ sort_by = "uid" =>
              \A i, j \in 1..Len(formatted.items) :
                    (i < j /\ IntUid(formatted.items[i]) /\ IntUid(formatted.items[j]))
                        => /\ UidValue(formatted.items[i]) <= UidValue(formatted.items[j])
                           /\ UidValue(formatted.items[i]) = UidValue(formatted.items[j])
                                => LowerName(formatted.items[i]) <= LowerName(formatted.items[j])

\* C25, amended: the keys are ordered as stated. In the name sort the records
\* are in the order of (lower-cased name, uid), a uid that is no integer
\* counting as 0. In the uid sort they are in the order of (int(uid),
\* lower-cased name), a missing uid counting as 0, when int() converts every
\* uid present; when some uid does not convert they are in the order of their
\* lower-cased names alone.
C25_CanonicalOrderAmended ==
    (pc = "fmt_once") =>
        /\ \A i \in 1..Len(formatted.items) : KeysCanonical(formatted.items[i])
        /\ sort_by = "name" =>
              /\ SortedByName(formatted.items)
              /\ \A i, j \in 1..Len(formatted.items) :
                    (i < j /\ LowerName(formatted.items[i]) = LowerName(formatted.items[j]))
                        => (IF IntUid(formatted.items[i]) THEN UidValue(formatted.items[i]) ELSE 0)
                            <= (IF IntUid(formatted.items[j]) THEN UidValue(formatted.items[j]) ELSE 0)
        /\ (sort_by = "uid" /\ \A i \in 1..Len(formatted.items) : UidConverts(formatted.items[i])) =>
              \A i, j \in 1..Len(formatted.items) :
                    i < j => /\ UidOrZero(formatted.items[i]) <= UidOrZero(formatted.items[j])
                             /\ UidOrZero(formatted.items[i]) = UidOrZero(formatted.items[j])
                                  => LowerName(formatted.items[i]) <= LowerName(formatted.items[j])
        /\ (sort_by = "uid" /\ \E i \in 1..Len(formatted.items) : ~UidConverts(formatted.items[i])) =>
              SortedByName(formatted.items)

\* The uid sort was requested for three records, one of them with a null uid:
\* the result is in name order, uid 2 before uid 1.
C25_Witness ==
    /\ pc = "fmt_once"
    /\ sort_by = "uid"
    /\ Len(formatted.items) = 3
    /\ \E i \in 1..3 : Get(formatted.items[i], "uid") = Null
    /\ \E i, j \in 1..3 :
          /\ i < j
          /\ Get(formatted.items[i], "uid") = JInt("2")
          /\ Get(formatted.items[j], "uid") = JInt("1")

\* ---- the run as a whole
\* C28: a sync run ends with a non-zero exit status exactly when
\* --fail-on-errors was given and the run counted at least one error or was
\* aborted by an exception; without --fail-on-errors the exit status is 0
\* whatever the error count.
C28_ExitStatus ==
    [][(mode = "sync" /\ pc' = "exited" /\ pc # "exited") =>
          /\ pc \in {"done", "aborted"}
          /\ (exit_code' # 0) <=> (fail_on_errors /\ (errors > 0 \/ pc = "aborted"))
          /\ ~fail_on_errors => exit_code' = 0]_vars

\* A run with --fail-on-errors was aborted before it counted any error and
\* ended with status 1.
C28_Witness ==
    /\ mode = "sync" /\ pc = "exited"
    /\ fail_on_errors
    /\ failure # "none"
    /\ errors = 0
    /\ exit_code = 1

UidsOf(apps) ==
    [i \in 1..Len(apps) |->
        IF isinstance(apps[i], "dict") /\ Has(apps[i], "uid")
        THEN Item(apps[i], "uid") ELSE Null]
\* No two records of the list carry the same uid.
UniqueUids(apps) ==
    \A i, j \in 1..Len(apps) :
        (i < j /\ UidsOf(apps)[i] # Null) => UidsOf(apps)[i] # UidsOf(apps)[j]
\* The list in a manifest file, empty when the file holds none.
ListIn(file) == IF file.exists /\ file.written = "full" THEN file.data ELSE <<>>

\* C26: in both onboarding modes a uid is accepted, and a record for it
\* added, only if no record of the manifest read and no uid accepted before
\* in the batch carries it; so when the uids of the manifest were unique
\* before the run, they are unique in the list handed to the write and in the
\* manifest file after it.
C26_OnboardingNoDuplicateUid ==
    /\ [][(mode \in Onboarding) =>
            /\ Len(uids_to_add') > Len(uids_to_add) =>
                  /\ Len(uids_to_add') = Len(uids_to_add) + 1
                  /\ JInt(Last(uids_to_add')) \notin ExistingUids(ListIn(disk))
                  /\ \A i \in 1..Len(uids_to_add) :
                        uids_to_add[i] # Last(uids_to_add')
            /\ Len(new_apps') > Len(new_apps) =>
                  /\ Len(new_apps') = Len(new_apps) + 1
                  /\ Get(Last(new_apps'), "uid") \notin ExistingUids(ListIn(disk))
                  /\ \A i \in 1..Len(new_apps) :
                        Get(new_apps[i], "uid") # Get(Last(new_apps'), "uid")]_vars
    /\ []((mode \in Onboarding /\ UniqueUids(ListIn(prev_disk))) =>
            /\ UniqueUids(ListIn(disk))
            /\ UniqueUids(ListIn(tmp))
            /\ call.fn = "write_json" => UniqueUids(call.data))

\* Onboarding from file names ended: two names were resolved, the one whose
\* uid the manifest already listed was skipped, and the manifest written
\* holds the old record and the new one.
C26_Witness ==
    /\ mode = "onboard_files" /\ pc = "done"
    /\ Len(ListIn(prev_disk)) = 1
    /\ Len(ListIn(disk)) = 2
    /\ UniqueUids(ListIn(disk))
    /\ Requests("search") = 2
    /\ Requests("lookup") = 1
    /\ uids_to_add = <<"2">>

\* The manifest file is absent, or its text is no JSON.
Unreadable(file) == ~file.exists \/ file.written \in {"empty", "partial"}
NothingProceeds ==
    /\ net' = net
    /\ files' = files
    /\ disk' = disk /\ tmp' = tmp /\ backups' = backups

\* C27: while the manifest file is absent or unparseable no step of a run, in
\* sync, validate or onboarding mode, sends a request (login, lookup, catalog,
\* download) or writes an archive, the manifest or a backup.
C27_ManifestFatal ==
    [][Unreadable(disk) => NothingProceeds]_vars

\* C27, amended: in sync and validate mode a manifest file that is absent or
\* unparseable ends the run in the handler of __main__ before any request is
\* sent and before any archive, manifest or backup is written. The onboarding
\* modes take such a file for an empty manifest and go on.
C27_ManifestFatalAmended ==
    /\ [][(Unreadable(disk) /\ mode \in {"sync", "validate"}) =>
            /\ NothingProceeds
            /\ pc' \in {"aborted", "exited", "killed"}
            /\ pc = "main" => (pc' = "killed" \/ failure' = "load")]_vars
    /\ [][(Unreadable(disk) /\ mode \in Onboarding /\ pc = "main"
              /\ pc' = "onb_auth") => existing_apps' = <<>>]_vars

\* A sync run found no manifest file and ended in the handler without a
\* request sent or a file written.
C27_Witness ==
    /\ mode = "sync" /\ pc = "exited"
    /\ ~disk.exists
    /\ failure = "load"
    /\ net = <<>> /\ backups = {} /\ tmp = NoFile
    /\ \A k \in DOMAIN files : files[k] = Absent

\* ---- timestamps
\* The timestamps that carry the UTC offset.
UtcStamps == {"lm_utc", "now_utc"}

\* C29: a download that succeeded hands back a timestamp in UTC, the instant
\* of the Last-Modified header when the header is present and parses, the
\* current instant otherwise; every updated_time a commit writes into a
\* record is such a timestamp.
C29_TimestampsUtc ==
    /\ (pc = "ds_return" /\ ds_exit = "ok") =>
          /\ updated_time \in UtcStamps
          /\ \A lm \in LastModified :
                FetchTimestamp(lm) = IF lm \in {"date", "date_offset", "date_nozone"}
                                     THEN "lm_utc" ELSE "now_utc"
    /\ updated_time # None => updated_time \in UtcStamps
    /\ \A k \in 1..Len(commits) : commits[k].time \in UtcStamps
    /\ \A i \in 1..Len(apps_data) :
          apps_data[i].updated_time # apps0[i].updated_time
              => apps_data[i].updated_time \in UtcStamps

\* A record was updated with the instant of the Last-Modified header and the
\* manifest holding it has been written.
C29_Witness ==
    /\ pc = "done"
    /\ Len(commits) >= 1
    /\ commits[1].time = "lm_utc"
    /\ \E i \in 1..Len(apps_data) : apps_data[i].updated_time = "lm_utc"
    /\ disk.data = apps_data

\* ---- one pass
DecisionActions ==
    {"skip", "plan-update", "updated", "plan-redownload", "redownloaded", "error"}
\* The records of the loaded manifest the loop has reached so far.
Reached == IF idx <= Len(apps0) THEN idx ELSE Len(apps0)

\* C30: a sync pass comes to an end. Every selected record is looked up at
\* most once, the lookup being sent when the loop stands at that record, and
\* a download is requested at most once between two lookups. When the loop
\* is done there is one decision per selected record, in the order of the
\* manifest, each with an action of skip, plan-update, updated,
\* plan-redownload, redownloaded or error.
C30_OnePass ==
    /\ <>(pc \in {"done", "aborted", "killed"})
    /\ [][Len(Lookups') > Len(Lookups) =>
            /\ idx <= Len(apps0)
            /\ Selected(apps0[idx])
            /\ Len(Lookups') = Len(SelectedUpTo(idx))
            /\ Last(Lookups').uid = apps0[idx].uid]_vars
    /\ [](/\ Len(Lookups) <= Len(SelectedUpTo(Reached))
          /\ \A k, l \in DOMAIN net :
                (k < l /\ net[k].kind = "download" /\ net[l].kind = "download")
                    => \E m \in DOMAIN net : k < m /\ m < l /\ net[m].kind = "lookup"
          /\ \A l \in DOMAIN net :
                net[l].kind = "download"
                    => \E m \in DOMAIN net : m < l /\ net[m].kind = "lookup")
    /\ [](pc = "done" =>
            /\ Len(eval_results) = Len(SelectedUpTo(Len(apps0)))
            /\ Len(Lookups) = Len(eval_results)
            /\ \A k \in 1..Len(eval_results) :
                  /\ eval_results[k].uid = SelectedUpTo(Len(apps0))[k].uid
                  /\ eval_results[k].action \in DecisionActions)

\* The pass ended with two decisions, an update and an error, after two
\* lookups and two download requests.
C30_Witness ==
    /\ pc = "done"
    /\ Len(eval_results) = 2
    /\ eval_results[1].action = "updated"
    /\ eval_results[2].action = "error"
    /\ Len(Lookups) = 2
    /\ Cardinality(DownloadsSent) = 2


\* ---- C31
CatalogRequest == [kind |-> "catalog", uid |-> NoUid, version |-> None]
\* A cache file that can be read and is younger than 24 hours.
FreshReadableCache ==
    /\ cache.exists
    /\ cache.age < 24
    /\ cache.content \in {"dict", "list"}
\* An entry of the answer on which building the catalog stops with an
\* exception: a title or appid that is no text, a uid that is no number.
Breaks(app) ==
    /\ isinstance(app, "dict")
    /\ \/ Has(app, "title") /\ ~isinstance(Item(app, "title"), "str")
       \/ Has(app, "appid") /\ ~isinstance(Item(app, "appid"), "str")
       \/ /\ Has(app, "uid") /\ Has(app, "title")
          /\ Item(app, "uid").s \notin {"", "0", "1", "2", "7"}
          /\ Item(app, "title").s # ""
\* The remote fetch failed (no answer, a status other than 200, a body that
\* cannot be processed) or brought no list of apps.
FailedOrEmpty(resp) ==
    \/ resp.status # 200
    \/ resp.body \notin {"list", "results"}
    \/ resp.apps = <<>>
    \/ \E i \in 1..Len(resp.apps) : Breaks(resp.apps[i])

WithAction(a) == Cardinality({k \in DOMAIN eval_results : eval_results[k].action = a})
UpdateFound ==
    Cardinality({k \in DOMAIN eval_results :
                    /\ eval_results[k].latest # None
                    /\ eval_results[k].latest # eval_results[k].current})

\* C32: when the pass has completed, total_apps is the number of decisions,
\* errors the number of decisions with action error, up_to_date the number
\* with action skip, to_update the number of decisions whose latest version
\* was obtained and differs from the current one.  missing_files grows by one
\* in the step that starts the evaluation of a record whose declared archive
\* is absent at that moment, and in no other step.
C32_CountersAgree ==
    /\ [](mode = "sync" /\ pc = "done" =>
            /\ total_apps = Len(eval_results)
            /\ errors = WithAction("error")
            /\ up_to_date = WithAction("skip")
            /\ to_update = UpdateFound)
    /\ [][/\ (mode = "sync" /\ pc = "loop" /\ pc' = "lookup") =>
               missing_files' = missing_files +
                  (IF files[<<apps_data[idx].uid, apps_data[idx].version>>] = Absent
                   THEN 1 ELSE 0)
          /\ ~(mode = "sync" /\ pc = "loop" /\ pc' = "lookup") =>
               missing_files' = missing_files]_vars

\* Witness: a completed pass with an error, a planned update and a planned
\* re-download, two of them for records whose archive was absent.
C32_Witness ==
    /\ mode = "sync" /\ pc = "done"
    /\ total_apps = 2 /\ Len(eval_results) = 2
    /\ to_update = 1 /\ missing_files = 2 /\ up_to_date = 0
    /\ eval_results[1].action = "plan-update"
    /\ eval_results[2].action = "plan-redownload"

\* ---- C33
DownloadRequests == SelectSeq(net, LAMBDA m : m.kind = "download")
\* A pass without dry-run, with --fix-missing, that has completed with every
\* lookup answered and every download request that was sent completed.
SuccessfulPass ==
    /\ mode = "sync" /\ pc = "done"
    /\ ~dry_run /\ fix_missing
    /\ \A k \in DOMAIN eval_results : eval_results[k].latest # None
    /\ Len(DownloadRequests) = Len(downloaded_apps)

\* C33 (as claimed): after a successful pass every evaluated record carries
\* the remote latest version in the manifest file and its archive
\* {uid}_{version}.tgz is in the output directory, whatever archives were
\* there before the pass.
C33_Convergence ==
    SuccessfulPass =>
        \A i \in DOMAIN apps_data :
            apps_data[i].uid # NoUid =>
                /\ disk.data[i].version = RemoteLatest(apps_data[i].uid)
                /\ files[<<apps_data[i].uid, disk.data[i].version>>] # Absent

\* ---- C34
\* The step that enters update_Your_apps_file_atomic and mutates the list.
CommitStep == pc \in {"idle", "ds_return"} /\ pc' = "upd_backup" /\ call'.fn = "update"
\* The list after the call differs from the list before it in the version
\* and updated_time of the first record with the uid and in nothing else; a
\* record is added at the end only when no record has the uid.
CommitFrame ==
    LET hits == {i \in DOMAIN apps_data : apps_data[i].uid = call'.uid} IN
    IF hits # {}
    THEN LET first == CHOOSE i \in hits : \A j \in hits : i <= j IN
         /\ Len(apps_data') = Len(apps_data)
         /\ \A j \in DOMAIN apps_data : j # first => apps_data'[j] = apps_data[j]
         /\ apps_data'[first].uid = apps_data[first].uid
         /\ apps_data'[first].version = call'.version
         /\ apps_data'[first].updated_time = call'.time
    ELSE /\ Len(apps_data') = Len(apps_data) + 1
         /\ SubSeq(apps_data', 1, Len(apps_data)) = apps_data
         /\ Last(apps_data') = [uid |-> call'.uid, version |-> call'.version,
                                updated_time |-> call'.time]

\* C34 (as claimed): a commit changes the version and updated_time of the
\* first record with the given uid and nothing else, appending a record only
\* when the uid is not listed; in a sync pass the record that changes is the
\* record under evaluation.
C34_CommitFrame ==
    [][CommitStep =>
          /\ CommitFrame
          /\ mode = "sync" =>
                /\ Len(apps_data') = Len(apps_data)
                /\ \A j \in DOMAIN apps_data : j # idx => apps_data'[j] = apps_data[j]]_vars

\* ---- C35
AllWarnings(issues) == \A k \in DOMAIN issues : issues[k].sev = "WARN"
\* The status of a classification is the one its issues call for.
StatusMatchesIssues(r) ==
    /\ r.status = "valid" <=> r.issues = <<>>
    /\ r.status = "invalid" <=> Count(r.issues, "ERR") > 0
    /\ r.status = "warning" <=> (r.issues # <<>> /\ AllWarnings(r.issues))

\* C35 (as claimed): every classification validate_apps_data returns for a
\* list is valid exactly when it has no issue, invalid exactly when it has an
\* error issue, warning exactly when it has issues and all are warnings; an
\* entry that is no object is not classified valid.
C35_StatusMatchesIssues ==
    (pc = "val_done" /\ isinstance(document, "list")) =>
        \A i \in DOMAIN results :
            /\ StatusMatchesIssues(results[i])
            /\ ~isinstance(document.items[i], "dict") => results[i].status # "valid"

\* ---- C36
RECURSIVE SumAllWarnIssues(_)
SumAllWarnIssues(seq) ==
    IF seq = <<>> THEN 0
    ELSE Count(seq[1].issues, "WARN") + SumAllWarnIssues(Tail(seq))

\* C36 (as claimed): the error count validate_apps_data returns for a list is
\* the number of ERR issues of all classifications, and the warning count is
\* the number of WARN issues of all classifications, those of records with
\* errors included.
C36_AggregateCounts ==
    (pc = "val_done" /\ isinstance(document, "list")) =>
        /\ val_errors = SumErrIssues(results)
        /\ val_warnings = SumAllWarnIssues(results)

\* ---- C37
\* A value as reformatting leaves it: text without the blanks around it, a
\* timestamp with a zone in its normal form.
Canonical(k, v) ==
    IF ~isinstance(v, "str") THEN v
    ELSE IF k = "updated_time" /\ _is_iso8601_with_tz(strip(v.s))
    THEN JStr(_normalize_iso8601(strip(v.s))[2])
    ELSE JStr(strip(v.s))
\* Two entries are the same record up to normalisation: the same keys, and
\* under each key the same value once both are normalised.
SameRecord(a, b) ==
    IF ~isinstance(a, "dict") \/ ~isinstance(b, "dict") THEN a = b
    ELSE /\ Keys(a) = Keys(b)
         /\ Len(a.items) = Len(b.items)
         /\ \A k \in Keys(a) : Canonical(k, Item(a, k)) = Canonical(k, Item(b, k))
\* Every record of old is in new, each at a place of its own.
Kept(old, new) ==
    \E f \in [1..Len(old) -> 1..Len(new)] :
        /\ \A i, j \in 1..Len(old) : i # j => f[i] # f[j]
        /\ \A i \in 1..Len(old) : SameRecord(old[i], new[f[i]])

\* C37: at every moment of an onboarding run, in both modes, the manifest
\* file holds every record it held before the run, with the same values up
\* to normalisation; the file is either as it was or holds those records and
\* the records found in the run, and no others.
C37_OnboardingPreserves ==
    (mode \in Onboarding /\ prev_disk.exists /\ prev_disk.written = "full") =>
        \/ disk = prev_disk
        \/ /\ disk.exists /\ disk.written = "full"
           /\ Kept(prev_disk.data, disk.data)
           /\ Len(disk.data) = Len(prev_disk.data) + Len(new_apps)
           /\ Kept(new_apps, disk.data)

\* Onboarding ended with a manifest in which the old record stands
\* normalised, after the record the run added.
C37_Witness ==
    /\ mode \in Onboarding /\ pc = "done"
    /\ Len(prev_disk.data) = 2
    /\ Get(prev_disk.data[1], "name") = JStr(" a ")
    /\ Len(disk.data) = 3
    /\ disk.data # prev_disk.data \o new_apps
    /\ \E i \in 1..3 : /\ Get(disk.data[i], "updated_time") = JStr("T+00:00")
                       /\ Get(disk.data[i], "version") = JStr("1.0")
                       /\ ~Has(disk.data[i], "uid")

\* ---- C38
\* C38: as long as an onboarding run has found no app to add, no step of it
\* changes the manifest file, the backup files or the temporary file, so a
\* run that ends without one (inputs invalid, not found, already listed,
\* without a version, or the prompt cancelled) leaves them as they were; and
\* a record that onboarding from files adds carries the version that the
\* lookup sent for its uid just before has answered, which is not empty.
C38_OnboardingWritesOnlyWhenResolved ==
    [][/\ (mode \in Onboarding /\ new_apps' = <<>>) =>
            /\ disk' = disk
            /\ backups' = backups
            /\ tmp' = tmp
       /\ (mode = "onboard_files" /\ new_apps' # new_apps) =>
            /\ Len(new_apps') = Len(new_apps) + 1
            /\ SubSeq(new_apps', 1, Len(new_apps)) = new_apps
            /\ Len(net') > 0
            /\ net'[Len(net')].kind = "lookup"
            /\ JInt(IF net'[Len(net')].uid = 1 THEN "1" ELSE "2")
                  = Get(new_apps'[Len(new_apps')], "uid")
            /\ isinstance(Get(new_apps'[Len(new_apps')], "version"), "str")
            /\ Get(new_apps'[Len(new_apps')], "version").s
                  = (IF net'[Len(net')].uid = 1 THEN "1.1" ELSE "2.1")]_vars

\* Onboarding from two file names ended with nothing to add, one name not
\* found and one found without a version, with backups switched on; the
\* manifest and the backups are as before.
C38_Witness ==
    /\ mode = "onboard_files" /\ pc = "done"
    /\ backup_keep = 1
    /\ disk.exists /\ disk = prev_disk /\ backups = {}
    /\ batch = <<>> /\ new_apps = <<>>
    /\ Requests("search") = 2
    /\ Requests("lookup") = 1
====
